---- MODULE Spec2Model ----
(***************************************************************************)
(* Model of the DAM pipeline of mooretm/afton (src/dam/models/dam.py, and  *)
(* its copy src/dam/dam.py): a table of raw trial rows is read, organised  *)
(* by organize_data (derived columns, canonical comparison labels) and     *)
(* cleaned by remove_incomplete_datasets (groups that do not have exactly  *)
(* four rows are dropped).  The REM part (src/rem/models/datamodel.py and  *)
(* the script src/rem/archive/rem_OLD.py) builds a DataModel from the      *)
(* measured and the target table and computes the difference scores.       *)
(*                                                                         *)
(* A Python string is a sequence of one-character strings, so that         *)
(* concatenation, splitting and ordering are computed, not assumed.        *)
(* A table is [columns |-> sequence of column names, rows |-> sequence of  *)
(* records]; an indexed table also has index |-> sequence of level names.  *)
(***************************************************************************)
EXTENDS Integers, Sequences, FiniteSets, TLC

VARIABLES
    pc,            \* position of the controller script
    raw_data,      \* the table import_data returned (organize_data works on it in place)
    prepped_data,  \* what organize_data returned (NoTable before, and when it raised)
    clean_data,    \* what remove_incomplete_datasets returned
    error,         \* the exception that ended the script, or "none"
    csv_rows,      \* the rows of the CSV files on disk, in reading order
    files,         \* the CSV files of the results folder, in glob order
    reported,      \* the invalid file names logged as errors
    dam_clean,     \* the rows written to dam_clean.csv (NoTable: not written)
    verifit_data,  \* REM script: the rows of v.measured
    estat_data,    \* REM script: the rows of e.estat_targets
    d,             \* REM script: the DataModel object (NoModel: none was produced)
    passed,        \* REM script: the two tables handed to DataModel(...)
    rem_pc,        \* position of the REM script
    rem_files,     \* REM script: the plots and CSV files saved
    rem_error      \* the exception that ended the REM script, or "none"

\* The folder, the log and the output file of the DAM script.
damio == << files, reported, dam_clean >>

\* The state of the REM script.
rem == << verifit_data, estat_data, d, passed, rem_files, rem_pc, rem_error >>

vars == << pc, raw_data, prepped_data, clean_data, error, csv_rows, damio, rem >>

(***************************************************************************)
(* Bounds of the model.                                                    *)
(***************************************************************************)
MaxRows == 6
MaxRowsPartition == 8
MaxRowsOrganize == 2
MaxRowsCopies == 5
MaxFiles == 2
MaxVerifitFiles == 2
MaxEstatFiles == 2
MaxCollapseFiles == 4
MaxConditionFiles == 4

(***************************************************************************)
(* Python strings.                                                         *)
(***************************************************************************)
\* The characters the model uses, in code point order.
CharOrder ==
    << "-", ".", "0", "1", "2", "3", "4", "5", "7", "9",
       "A", "B", "C", "D", "E", "F", "I", "M", "N", "O", "R", "S", "T",
       "_", "a", "b", "c" >>

Ord(c) == CHOOSE i \in 1..Len(CharOrder) : CharOrder[i] = c

\* a < b on Python strings: lexicographic by code point, a proper prefix first.
RECURSIVE StrLess(_, _)
StrLess(a, b) ==
    IF b = <<>> THEN FALSE
    ELSE IF a = <<>> THEN TRUE
    ELSE IF Head(a) = Head(b) THEN StrLess(Tail(a), Tail(b))
    ELSE Ord(Head(a)) < Ord(Head(b))

\* s.split(sep) for a one-character separator: every occurrence separates,
\* so adjacent separators give empty tokens and '' gives [''].
RECURSIVE Split(_, _)
Split(s, sep) ==
    IF \A i \in 1..Len(s) : s[i] # sep
    THEN << s >>
    ELSE LET p == CHOOSE i \in 1..Len(s) :
                    s[i] = sep /\ \A j \in 1..(i - 1) : s[j] # sep
         IN  << SubSeq(s, 1, p - 1) >> \o Split(SubSeq(s, p + 1, Len(s)), sep)

\* NaN: the missing value
NaN == << >>

\* A cell of a table is a string or, in a column pd.read_csv inferred to be
\* numeric, a Python int: the int is written as the tag "int" followed by
\* its decimal digits, so 71 is << "int", "7", "1" >>.
IsInteger(cell) == cell # << >> /\ cell[1] = "int"

\* temp = pd.read_csv(file), for the rows of one file as they are written in
\* it.  A column is inferred as a whole: when every cell of audio_file is a
\* numeral the column holds the integers (leading zeros gone), otherwise
\* every cell stays the string it is written as.  (subject is a number in
\* the file and in the table; the cells of the other columns hold letters.)
read_csv(rows) ==
    LET IsNumeral(text) ==
            /\ text # << >>
            /\ \A i \in 1..Len(text) :
                   text[i] \in { "0", "1", "2", "3", "4", "5", "6", "7", "8", "9" }
        RECURSIVE digits(_)
        digits(text) ==
            IF Len(text) > 1 /\ Head(text) = "0" THEN digits(Tail(text)) ELSE text
    IN  IF rows # << >> /\ \A i \in 1..Len(rows) : IsNumeral(rows[i].audio_file)
        THEN [i \in 1..Len(rows) |->
                 [rows[i] EXCEPT !.audio_file = << "int" >> \o digits(@)]]
        ELSE rows

(***************************************************************************)
(* Constants of dam.py.                                                    *)
(***************************************************************************)
DAM_3 == << "D", "A", "M", "_", "3" >>
DAM_4 == << "D", "A", "M", "_", "4" >>
DAM_OFF == << "D", "A", "M", "_", "O", "F", "F" >>
MNR_3 == << "M", "N", "R", "_", "3" >>

\* button_A + "-" + button_B
Label(a, b) == a \o << "-" >> \o b

NOISE_TRACKS ==
    { << "1", "1", "9" >>, << "2", "0", "5" >>, << "1", "9", "3" >>,
      << "1", "8", "1" >>, << "1", "7", "0" >>, << "1", "8", "2" >>,
      << "1", "6", "0" >>, << "7", "1" >> }

\* COMPARISONS with the first entry left in the direction of its key.
ComparisonItemsUnflipped ==
    { << Label(DAM_3, DAM_OFF), Label(DAM_3, DAM_OFF) >>,
      << Label(DAM_4, DAM_3),   Label(DAM_3, DAM_4) >>,
      << Label(DAM_3, MNR_3),   Label(MNR_3, DAM_3) >>,
      << Label(DAM_OFF, DAM_3), Label(DAM_OFF, DAM_3) >>,
      << Label(DAM_3, DAM_4),   Label(DAM_3, DAM_4) >>,
      << Label(MNR_3, DAM_3),   Label(MNR_3, DAM_3) >> }

\* COMPARISONS with every entry mapped to the mirror of its key.
ComparisonItemsCrossed ==
    { << Label(DAM_3, DAM_OFF), Label(DAM_OFF, DAM_3) >>,
      << Label(DAM_4, DAM_3),   Label(DAM_3, DAM_4) >>,
      << Label(DAM_3, MNR_3),   Label(MNR_3, DAM_3) >>,
      << Label(DAM_OFF, DAM_3), Label(DAM_3, DAM_OFF) >>,
      << Label(DAM_3, DAM_4),   Label(DAM_4, DAM_3) >>,
      << Label(MNR_3, DAM_3),   Label(DAM_3, MNR_3) >> }

\* The dict COMPARISONS as its (key, value) items.
ComparisonItems ==
    { << Label(DAM_3, DAM_OFF), Label(DAM_OFF, DAM_3) >>,
      << Label(DAM_4, DAM_3),   Label(DAM_3, DAM_4) >>,
      << Label(DAM_3, MNR_3),   Label(MNR_3, DAM_3) >>,
      << Label(DAM_OFF, DAM_3), Label(DAM_OFF, DAM_3) >>,
      << Label(DAM_3, DAM_4),   Label(DAM_3, DAM_4) >>,
      << Label(MNR_3, DAM_3),   Label(MNR_3, DAM_3) >> }

ComparisonKeys == { it[1] : it \in ComparisonItems }

\* COMPARISONS[x], for x a key.
COMPARISONS(x) == (CHOOSE it \in ComparisonItems : it[1] = x)[2]

\* The number of rows a complete dataset has.
ExpectedCount == 4

(***************************************************************************)
(* Tables (pandas DataFrames).                                             *)
(***************************************************************************)
NoTable == [columns |-> << >>, rows |-> << >>, none |-> TRUE]

\* No DataModel object: the constructor has not run, or it raised.
NoModel == [none |-> TRUE]

\* The REM script is not run.
RemIdle ==
    /\ verifit_data = << >>
    /\ estat_data = << >>
    /\ d = NoModel
    /\ passed = NoModel
    /\ rem_files = { }
    /\ rem_pc = "idle"
    /\ rem_error = "none"

IsTable(t) == "none" \notin DOMAIN t

\* The columns of a raw DAM file, in file order.
RawColumns ==
    << "subject", "condition", "button_A", "button_B", "audio_file", "outcome" >>

HasColumn(t, name) == \E i \in 1..Len(t.columns) : t.columns[i] = name

\* data[name] = values: a new column goes last, an existing one is overwritten.
SetColumn(t, name, values) ==
    [t EXCEPT
        !.columns = IF HasColumn(t, name) THEN @ ELSE Append(@, name),
        !.rows = [i \in 1..Len(t.rows) |->
                    [c \in (DOMAIN t.rows[i]) \cup {name} |->
                        IF c = name THEN values[i] ELSE t.rows[i][c]]]]

\* data.insert(loc, name, values), loc counted from 0.
InsertColumn(t, loc, name, values) ==
    [t EXCEPT
        !.columns = SubSeq(@, 1, loc) \o << name >> \o SubSeq(@, loc + 1, Len(@)),
        !.rows = [i \in 1..Len(t.rows) |->
                    [c \in (DOMAIN t.rows[i]) \cup {name} |->
                        IF c = name THEN values[i] ELSE t.rows[i][c]]]]

(***************************************************************************)
(* organize_data(data): works on data in place, statement by statement,    *)
(* and returns data itself.  A step gives the table as it left it and the  *)
(* exception it raised ("none" when it completed); the next statement runs *)
(* only if the one before raised nothing.                                  *)
(***************************************************************************)
ComparisonLoc == 6

Pref == << "p", "r", "e", "f" >>
Noise == << "n", "o", "i", "s", "e" >>

Done(t) == [data |-> t, error |-> "none"]
Raised(t, e) == [data |-> t, error |-> e]

\* data.insert(loc=6, column='comparison', value=data["button_A"]+"-"+data["button_B"])
InsertComparison(data) ==
    IF ~ (HasColumn(data, "button_A") /\ HasColumn(data, "button_B"))
    THEN Raised(data, "KeyError")
    ELSE IF HasColumn(data, "comparison")
    THEN Raised(data, "ValueError")
    ELSE IF ComparisonLoc > Len(data.columns)
    THEN Raised(data, "IndexError")
    ELSE Done(InsertColumn(data, ComparisonLoc, "comparison",
                  [i \in 1..Len(data.rows) |->
                      Label(data.rows[i].button_A, data.rows[i].button_B)]))

\* data["audio_file"].str: the accessor is refused (AttributeError) when the
\* column holds values and none of them is a string.
NotStrings(data) ==
    /\ data.rows # << >>
    /\ \A i \in 1..Len(data.rows) : IsInteger(data.rows[i].audio_file)

\* data["audio_file"].str.split('_'), for one row: the list of tokens of a
\* string, NaN for a cell that is no string
SplitValues(row) ==
    IF IsInteger(row.audio_file) THEN NaN ELSE Split(row.audio_file, "_")

\* lambda z: z[-1]
SnrOfLast(z) == z[Len(z)]

\* lambda z: z[4]; the token list must have an element at index 4
HasSnr(z) == Len(z) >= 5

SnrOf(z) == z[5]

\* What z[4] raises: NaN (a float) is not subscriptable, a list of fewer
\* than five tokens has no index 4.
SnrError(z) == IF z = NaN THEN "TypeError" ELSE "IndexError"

\* lambda z: z[0]
TrackOf(z) == z[1]

\* lambda value: 'noise' if value in NOISE_TRACKS else 'pref'
TypeOf(track) == IF track \in NOISE_TRACKS THEN Noise ELSE Pref

\* A per-record skip: rows whose file name has no fifth token are left out.
AddSnrSkip(data) ==
    LET kept == [data EXCEPT
                    !.rows = SelectSeq(@, LAMBDA r : Len(Split(r.audio_file, "_")) >= 5)]
    IN  [data  |-> SetColumn(kept, "snr",
                       [i \in 1..Len(kept.rows) |->
                           Split(kept.rows[i].audio_file, "_")[5]]),
         error |-> "none"]

\* audio_files = data["audio_file"]; split_values = audio_files.str.split('_');
\* snrs = split_values.apply(lambda z: z[4]); data['snr'] = snrs
AddSnr(data) ==
    IF ~ HasColumn(data, "audio_file")
    THEN Raised(data, "KeyError")
    ELSE IF NotStrings(data)
    THEN Raised(data, "AttributeError")
    ELSE IF \E i \in 1..Len(data.rows) : ~ HasSnr(SplitValues(data.rows[i]))
    \* apply goes through the rows in order: the first failing row raises
    THEN LET first == CHOOSE i \in 1..Len(data.rows) :
                          /\ ~ HasSnr(SplitValues(data.rows[i]))
                          /\ \A j \in 1..(i - 1) : HasSnr(SplitValues(data.rows[j]))
         IN  Raised(data, SnrError(SplitValues(data.rows[first])))
    ELSE Done(SetColumn(data, "snr",
                  [i \in 1..Len(data.rows) |-> SnrOf(SplitValues(data.rows[i]))]))

\* tracks = split_values.apply(lambda z: z[0]); data['tracks'] = tracks
AddTracks(data) ==
    Done(SetColumn(data, "tracks",
             [i \in 1..Len(data.rows) |-> TrackOf(SplitValues(data.rows[i]))]))

\* data['type'] = data['tracks'].apply(...)
AddType(data) ==
    Done(SetColumn(data, "type",
             [i \in 1..Len(data.rows) |-> TypeOf(data.rows[i].tracks)]))

\* COMPARISONS.get(x, x): a label that is no key is passed through.
FlipMirroredDefault(data) ==
    [data  |-> SetColumn(data, "comparison",
                   [i \in 1..Len(data.rows) |->
                       IF data.rows[i].comparison \in ComparisonKeys
                       THEN COMPARISONS(data.rows[i].comparison)
                       ELSE data.rows[i].comparison]),
     error |-> "none"]

\* data['comparison'] = data['comparison'].apply(lambda x: COMPARISONS[x])
FlipMirrored(data) ==
    IF \E i \in 1..Len(data.rows) : data.rows[i].comparison \notin ComparisonKeys
    THEN Raised(data, "KeyError")
    ELSE Done(SetColumn(data, "comparison",
                  [i \in 1..Len(data.rows) |-> COMPARISONS(data.rows[i].comparison)]))

organize_data(data) ==
    LET s1 == InsertComparison(data)
        s2 == IF s1.error = "none" THEN AddSnr(s1.data) ELSE s1
        s3 == IF s2.error = "none" THEN AddTracks(s2.data) ELSE s2
        s4 == IF s3.error = "none" THEN AddType(s3.data) ELSE s3
        step == IF s4.error = "none" THEN FlipMirrored(s4.data) ELSE s4
    IN  [data  |-> step.data,
         ret   |-> IF step.error = "none" THEN step.data ELSE NoTable,
         error |-> step.error]

(***************************************************************************)
(* remove_incomplete_datasets(data): works on copies of data.              *)
(***************************************************************************)
KeyColumns == << "subject", "comparison", "snr", "condition" >>

KeyOf(row) == << row.subject, row.comparison, row.snr, row.condition >>

\* The order of the MultiIndex: subject (a number), then the three strings.
KeyLess(a, b) ==
    \/ a[1] < b[1]
    \/ a[1] = b[1] /\ StrLess(a[2], b[2])
    \/ a[1] = b[1] /\ a[2] = b[2] /\ StrLess(a[3], b[3])
    \/ a[1] = b[1] /\ a[2] = b[2] /\ a[3] = b[3] /\ StrLess(a[4], b[4])

\* No partition: every row goes to the first sub-table.
MaskAll(row) == TRUE

\* mask = mli['type'] == 'pref'
Mask(row) == row.type = Pref

\* mli[mask] and mli[-mask]
Select(rows, keep) ==
    SelectSeq(rows, LAMBDA r : Mask(r) = keep)

\* series.unique(): the distinct values in order of first appearance
RECURSIVE Unique(_)
Unique(s) ==
    IF s = << >> THEN << >>
    ELSE LET u == Unique(SubSeq(s, 1, Len(s) - 1))
             x == s[Len(s)]
         IN  IF \E i \in 1..Len(u) : u[i] = x THEN u ELSE Append(u, x)

\* df.set_index(KeyColumns): the key columns become the index levels
SetIndex(columns) ==
    SelectSeq(columns, LAMBDA c : \A i \in 1..Len(KeyColumns) : KeyColumns[i] # c)

\* df.sort_index(level=KeyColumns): a stable sort by key
RECURSIVE SortIndex(_)
SortIndex(rows) ==
    IF rows = << >> THEN << >>
    ELSE LET sorted == SortIndex(SubSeq(rows, 1, Len(rows) - 1))
             x == rows[Len(rows)]
             p == Cardinality({ i \in 1..Len(sorted) :
                                  ~ KeyLess(KeyOf(x), KeyOf(sorted[i])) })
         IN  SubSeq(sorted, 1, p) \o << x >> \o SubSeq(sorted, p + 1, Len(sorted))

\* No loops: only the first value of each list is visited.
CombinationsFirstOnly(subject_ids, comparisons, snrs, conditions) ==
    IF subject_ids = << >> THEN << >>
    ELSE << << subject_ids[1], comparisons[1], snrs[1], conditions[1] >> >>

\* The nested for loops: subject outermost, condition innermost.
Combinations(subject_ids, comparisons, snrs, conditions) ==
    LET nc == Len(comparisons)
        ns == Len(snrs)
        nd == Len(conditions)
    IN  [k \in 1..(Len(subject_ids) * nc * ns * nd) |->
            << subject_ids[((k - 1) \div (nc * ns * nd)) + 1],
               comparisons[(((k - 1) \div (ns * nd)) % nc) + 1],
               snrs[(((k - 1) \div nd) % ns) + 1],
               conditions[((k - 1) % nd) + 1] >>]

Matching(rows, key) == SelectSeq(rows, LAMBDA r : KeyOf(r) = key)

\* df.index.is_unique
IsUnique(rows) ==
    \A i, j \in 1..Len(rows) : KeyOf(rows[i]) = KeyOf(rows[j]) => i = j

\* shape[0] of the whole sub-table instead of the rows selected by key.
Shape0WholeTable(rows, ncols, key) ==
    IF \A i, j \in 1..Len(rows) :
           << rows[i].subject, rows[i].comparison, rows[i].snr, rows[i].condition >>
             = << rows[j].subject, rows[j].comparison, rows[j].snr, rows[j].condition >>
               => i = j
    THEN ncols
    ELSE Len(rows)

\* temp.shape[0] for temp = df.loc[key], key present: the number of matching
\* rows, but when no key of the index repeats df.loc gives the one row as a
\* Series, whose shape[0] is the number of columns.
Shape0(rows, ncols, key) ==
    IF IsUnique(rows) THEN ncols ELSE Len(Matching(rows, key))

\* if temp.shape[0] < 4
IncompleteBelow(shape0) == shape0 < 4

\* if temp.shape[0] != 4
Incomplete(shape0) == shape0 # ExpectedCount

\* Trimming: only the rows of the key after its first four are dropped.
DropExcess(rows, key) ==
    LET at == { i \in 1..Len(rows) :
                  << rows[i].subject, rows[i].comparison,
                     rows[i].snr, rows[i].condition >> = key }
        rank(i) == Cardinality({ j \in at : j <= i })
        keep == { i \in 1..Len(rows) : i \notin at \/ rank(i) <= 4 }
        nth(m) == CHOOSE i \in keep : Cardinality({ j \in keep : j <= i }) = m
    IN  [m \in 1..Cardinality(keep) |-> rows[nth(m)]]

\* df.drop(key, axis=0, inplace=True)
Drop(rows, key) == SelectSeq(rows, LAMBDA r : KeyOf(r) # key)

\* No except clause: the KeyError of a missing combination propagates.
OnKeyErrorRaise(df) == [df EXCEPT !.error = "KeyError"]

\* except KeyError: continue
OnKeyError(df) == df

\* One pass of the loop body per combination, in order.
RECURSIVE CheckCombinations(_, _, _)
CheckCombinations(df, ncols, combos) ==
    IF combos = << >> \/ df.error # "none" THEN df
    ELSE LET key == Head(combos)
             next == IF Matching(df.rows, key) = << >>
                     THEN OnKeyError(df)
                     ELSE IF Incomplete(Shape0(df.rows, ncols, key))
                     THEN [df EXCEPT !.rows = Drop(@, key)]
                     ELSE df
         IN  CheckCombinations(next, ncols, Tail(combos))

\* The body of `for df in df_list` for one of the two sub-tables.
CheckTable(rows, columns) ==
    LET col(name) == [i \in 1..Len(rows) |-> rows[i][name]]
        combos == Combinations(Unique(col("subject")), Unique(col("comparison")),
                               Unique(col("snr")), Unique(col("condition")))
    IN  CheckCombinations([rows |-> SortIndex(rows), error |-> "none"],
                          Len(SetIndex(columns)), combos)

\* prefs = mli: set_index, sort_index and drop then work on the caller's table.
CallerTableShared(data, prefs) ==
    [index |-> KeyColumns, columns |-> SetIndex(data.columns), rows |-> prefs.rows]

\* mli = data.copy(); prefs = mli[mask].copy(): the statements that work in
\* place (set_index, sort_index, drop) work on copies, not on the caller's table.
CallerTable(data, prefs) == data

\* df[name] also finds the levels of the index.
ColumnLabelsWithIndex(data) ==
    IF "index" \in DOMAIN data THEN data.index \o data.columns ELSE data.columns

\* mli['type'], df["subject"], df["condition"], df["snr"], df["comparison"]:
\* a name is looked up among the columns only.
ColumnLabels(data) == data.columns

\* One of the five names is no column: the lookup raises KeyError.
MissingLabel(data) ==
    \E name \in { "type", "subject", "condition", "snr", "comparison" } :
        \A i \in 1..Len(ColumnLabels(data)) : ColumnLabels(data)[i] # name

\* The result: the caller's table after the call (data), the returned table
\* (ret) and the exception raised.
remove_incomplete_datasets(data) ==
    LET prefs == CheckTable(Select(data.rows, TRUE), data.columns)
        noise == CheckTable(Select(data.rows, FALSE), data.columns)
        after == CallerTable(data, prefs)
    IN  IF MissingLabel(data)
        THEN [data |-> data, ret |-> NoTable, error |-> "KeyError"]
        ELSE IF prefs.error # "none"
        THEN [data |-> after, ret |-> NoTable, error |-> prefs.error]
        ELSE IF noise.error # "none"
        THEN [data |-> after, ret |-> NoTable, error |-> noise.error]
        ELSE [data  |-> after,
              ret   |-> [index   |-> KeyColumns,
                         columns |-> SetIndex(data.columns),
                         rows    |-> prefs.rows \o noise.rows],
              error |-> "none"]

(***************************************************************************)
(* The second copy of the DAM logic, src/dam/dam.py: the module the        *)
(* script of that file runs.  Its constants and its two functions are      *)
(* translated from that file, statement by statement, apart from the       *)
(* definitions above.                                                      *)
(***************************************************************************)
dam_NOISE_TRACKS ==
    { << "1", "1", "9" >>, << "2", "0", "5" >>, << "1", "9", "3" >>,
      << "1", "8", "1" >>, << "1", "7", "0" >>, << "1", "8", "2" >>,
      << "1", "6", "0" >>, << "7", "1" >> }

\* The dict with its fourth entry mapped to the mirror of its key.
dam_ComparisonItemsDrifted ==
    { << << "D", "A", "M", "_", "3", "-", "D", "A", "M", "_", "O", "F", "F" >>,
         << "D", "A", "M", "_", "O", "F", "F", "-", "D", "A", "M", "_", "3" >> >>,
      << << "D", "A", "M", "_", "4", "-", "D", "A", "M", "_", "3" >>,
         << "D", "A", "M", "_", "3", "-", "D", "A", "M", "_", "4" >> >>,
      << << "D", "A", "M", "_", "3", "-", "M", "N", "R", "_", "3" >>,
         << "M", "N", "R", "_", "3", "-", "D", "A", "M", "_", "3" >> >>,
      << << "D", "A", "M", "_", "O", "F", "F", "-", "D", "A", "M", "_", "3" >>,
         << "D", "A", "M", "_", "3", "-", "D", "A", "M", "_", "O", "F", "F" >> >>,
      << << "D", "A", "M", "_", "3", "-", "D", "A", "M", "_", "4" >>,
         << "D", "A", "M", "_", "3", "-", "D", "A", "M", "_", "4" >> >>,
      << << "M", "N", "R", "_", "3", "-", "D", "A", "M", "_", "3" >>,
         << "M", "N", "R", "_", "3", "-", "D", "A", "M", "_", "3" >> >> }

\* The dict COMPARISONS of src/dam/dam.py as its (key, value) items.
dam_ComparisonItems ==
    { << << "D", "A", "M", "_", "3", "-", "D", "A", "M", "_", "O", "F", "F" >>,
         << "D", "A", "M", "_", "O", "F", "F", "-", "D", "A", "M", "_", "3" >> >>,
      << << "D", "A", "M", "_", "4", "-", "D", "A", "M", "_", "3" >>,
         << "D", "A", "M", "_", "3", "-", "D", "A", "M", "_", "4" >> >>,
      << << "D", "A", "M", "_", "3", "-", "M", "N", "R", "_", "3" >>,
         << "M", "N", "R", "_", "3", "-", "D", "A", "M", "_", "3" >> >>,
      << << "D", "A", "M", "_", "O", "F", "F", "-", "D", "A", "M", "_", "3" >>,
         << "D", "A", "M", "_", "O", "F", "F", "-", "D", "A", "M", "_", "3" >> >>,
      << << "D", "A", "M", "_", "3", "-", "D", "A", "M", "_", "4" >>,
         << "D", "A", "M", "_", "3", "-", "D", "A", "M", "_", "4" >> >>,
      << << "M", "N", "R", "_", "3", "-", "D", "A", "M", "_", "3" >>,
         << "M", "N", "R", "_", "3", "-", "D", "A", "M", "_", "3" >> >> }

\* COMPARISONS[x], for x a key.
dam_COMPARISONS(x) == (CHOOSE it \in dam_ComparisonItems : it[1] = x)[2]

\* loc=6
dam_ComparisonLoc == 6

\* organize_data(data) of src/dam/dam.py.  The statements work on data in
\* place: the table a failing call leaves behind is the one the statements
\* before the failing one made.  The result has the caller's table after the
\* call (data), the returned table (ret) and the exception raised.
dam_organize_data(data) ==
    LET n == Len(data.rows)
        failed(t, e) == [data |-> t, ret |-> NoTable, error |-> e]
        \* data.insert(loc=6, column='comparison',
        \*             value=data["button_A"]+"-"+data["button_B"])
        inserted ==
            InsertColumn(data, dam_ComparisonLoc, "comparison",
                [i \in 1..n |->
                    data.rows[i].button_A \o << "-" >> \o data.rows[i].button_B])
        \* audio_files = data["audio_file"]: the cells that are integers
        integers ==
            { i \in 1..n : /\ data.rows[i].audio_file # << >>
                           /\ data.rows[i].audio_file[1] = "int" }
        \* audio_files.str: refused when the column holds values and no string
        no_string == n > 0 /\ integers = 1..n
        \* split_values = audio_files.str.split('_'): the tokens of a string,
        \* << >> (NaN) for a cell that is no string
        split_values ==
            [i \in 1..n |->
                IF i \in integers THEN << >> ELSE Split(data.rows[i].audio_file, "_")]
        \* the rows for which z[4] raises
        bad == { i \in 1..n : Len(split_values[i]) < 5 }
        \* snrs = split_values.apply(lambda z: z[4]); data['snr'] = snrs
        with_snr == SetColumn(inserted, "snr", [i \in 1..n |-> split_values[i][5]])
        \* tracks = split_values.apply(lambda z: z[0]); data['tracks'] = tracks
        with_tracks ==
            SetColumn(with_snr, "tracks", [i \in 1..n |-> split_values[i][1]])
        \* data['type'] = data['tracks'].apply(
        \*     lambda value: 'noise' if value in NOISE_TRACKS else 'pref')
        with_type ==
            SetColumn(with_tracks, "type",
                [i \in 1..n |->
                    IF with_tracks.rows[i].tracks \in dam_NOISE_TRACKS
                    THEN << "n", "o", "i", "s", "e" >>
                    ELSE << "p", "r", "e", "f" >>])
        \* data['comparison'] = data['comparison'].apply(lambda x: COMPARISONS[x])
        flipped ==
            SetColumn(with_type, "comparison",
                [i \in 1..n |-> dam_COMPARISONS(with_type.rows[i].comparison)])
    IN  IF ~ HasColumn(data, "button_A") \/ ~ HasColumn(data, "button_B")
        THEN failed(data, "KeyError")
        ELSE IF HasColumn(data, "comparison")
        THEN failed(data, "ValueError")
        ELSE IF dam_ComparisonLoc > Len(data.columns)
        THEN failed(data, "IndexError")
        ELSE IF ~ HasColumn(inserted, "audio_file")
        THEN failed(inserted, "KeyError")
        ELSE IF no_string
        THEN failed(inserted, "AttributeError")
        ELSE IF bad # { }
        THEN failed(inserted,
                    IF split_values[CHOOSE i \in bad : \A j \in bad : i <= j] = << >>
                    THEN "TypeError"
                    ELSE "IndexError")
        ELSE IF \E i \in 1..n :
                    \A it \in dam_ComparisonItems :
                        it[1] # with_type.rows[i].comparison
        THEN failed(with_type, "KeyError")
        ELSE [data |-> flipped, ret |-> flipped, error |-> "none"]

\* ['subject', 'comparison', 'snr', 'condition']
dam_KeyColumns == << "subject", "comparison", "snr", "condition" >>

\* (subject, comparison, snr, condition): the index entry of a row
dam_KeyOf(row) == [i \in 1..Len(dam_KeyColumns) |-> row[dam_KeyColumns[i]]]

\* df.sort_index(level=[...], inplace=True): a row goes after the rows of a
\* smaller key and after the rows of its own key that stood before it.
dam_SortIndex(rows) ==
    LET n == Len(rows)
        rank(i) ==
            Cardinality({ j \in 1..n :
                \/ KeyLess(dam_KeyOf(rows[j]), dam_KeyOf(rows[i]))
                \/ dam_KeyOf(rows[j]) = dam_KeyOf(rows[i]) /\ j < i })
    IN  [p \in 1..n |-> rows[CHOOSE i \in 1..n : rank(i) = p - 1]]

\* The four nested for loops: the keys in the order they are visited.
dam_Combinations(subject_ids, comparisons, snrs, conditions) ==
    LET RECURSIVE chain(_)
        chain(lists) ==
            IF lists = << >> THEN << >> ELSE Head(lists) \o chain(Tail(lists))
    IN  chain([s \in 1..Len(subject_ids) |->
            chain([c \in 1..Len(comparisons) |->
                chain([r \in 1..Len(snrs) |->
                    [k \in 1..Len(conditions) |->
                        << subject_ids[s], comparisons[c],
                           snrs[r], conditions[k] >>]])])])

\* if temp.shape[0] != 4
dam_ExpectedCount == 4

\* The try statement for one key, on the rows df has by then.  df.loc of a
\* key no row has raises KeyError and the except clause goes on; df.loc
\* gives the one row as a Series (shape[0] is the number of columns) when no
\* key of the index repeats, and the matching rows as a table otherwise.
dam_Visit(rows, ncols, key) ==
    LET temp == SelectSeq(rows, LAMBDA r : dam_KeyOf(r) = key)
        is_unique ==
            \A i, j \in 1..Len(rows) :
                dam_KeyOf(rows[i]) = dam_KeyOf(rows[j]) => i = j
        shape0 == IF is_unique THEN ncols ELSE Len(temp)
    IN  IF temp = << >> THEN rows
        ELSE IF shape0 # dam_ExpectedCount
        THEN SelectSeq(rows, LAMBDA r : dam_KeyOf(r) # key)
        ELSE rows

\* The body of `for df in df_list` for one of the two sub-tables: the rows
\* df has when the loops are through.
dam_ForDf(df, columns) ==
    LET col(name) == [i \in 1..Len(df) |-> df[i][name]]
        subject_ids == Unique(col("subject"))
        conditions == Unique(col("condition"))
        snrs == Unique(col("snr"))
        comparisons == Unique(col("comparison"))
        keys == dam_Combinations(subject_ids, comparisons, snrs, conditions)
        RECURSIVE loop(_, _)
        loop(rows, k) ==
            IF k > Len(keys) THEN rows
            ELSE loop(dam_Visit(rows, Len(columns), keys[k]), k + 1)
    IN  loop(dam_SortIndex(df), 1)

\* remove_incomplete_datasets(data) of src/dam/dam.py.  mli, prefs and noise
\* are copies: the caller's table (data) is as it was after the call.
dam_remove_incomplete_datasets(data) ==
    LET has(name) == \E i \in 1..Len(data.columns) : data.columns[i] = name
        \* mask = mli['type'] == 'pref'
        mask(r) == r.type = << "p", "r", "e", "f" >>
        prefs == SelectSeq(data.rows, LAMBDA r : mask(r))
        noise == SelectSeq(data.rows, LAMBDA r : ~ mask(r))
        \* set_index: the key columns leave the columns
        columns ==
            SelectSeq(data.columns,
                LAMBDA c : \A i \in 1..Len(dam_KeyColumns) : dam_KeyColumns[i] # c)
    IN  IF ~ (has("type") /\ has("subject") /\ has("condition")
                /\ has("snr") /\ has("comparison"))
        THEN [data |-> data, ret |-> NoTable, error |-> "KeyError"]
        ELSE [data  |-> data,
              \* pd.concat(df_list)
              ret   |-> [index   |-> dam_KeyColumns,
                         columns |-> columns,
                         rows    |-> dam_ForDf(prefs, columns)
                                        \o dam_ForDf(noise, columns)],
              error |-> "none"]

(***************************************************************************)
(* The rows the files hold.                                                *)
(***************************************************************************)
Row(subject, condition, a, b, file, outcome) ==
    [subject |-> subject, condition |-> condition, button_A |-> a,
     button_B |-> b, audio_file |-> file, outcome |-> outcome]

CondA == << "A" >>
CondB == << "B" >>

\* 12_a_b_c_5: track 12 (a preference track), SNR 5
FilePref5 == << "1", "2", "_", "a", "_", "b", "_", "c", "_", "5" >>
\* 12_a_b_c_10: track 12, SNR 10
FilePref10 == << "1", "2", "_", "a", "_", "b", "_", "c", "_", "1", "0" >>
\* 71_a_b_c_5: track 71 (a noise track), SNR 5
FileNoise5 == << "7", "1", "_", "a", "_", "b", "_", "c", "_", "5" >>
\* 119_a_b_c_10_a: track 119 (a noise track), SNR 10, six tokens
FileNoise10 ==
    << "1", "1", "9", "_", "a", "_", "b", "_", "c", "_", "1", "0", "_", "a" >>
\* 12_a_b_c: four tokens
FileShort == << "1", "2", "_", "a", "_", "b", "_", "c" >>
\* 71: one token, a numeral
FileTrackOnly == << "7", "1" >>

\* Rows of well-formed files: one cell in two mirrored directions, the same
\* cell as a noise trial, and another subject's cell.
FilterRows ==
    { Row(1, CondA, DAM_3, DAM_OFF, FilePref5, << "A" >>),
      Row(1, CondA, DAM_OFF, DAM_3, FilePref5, << "B" >>),
      Row(1, CondA, DAM_OFF, DAM_3, FileNoise5, << "A" >>),
      Row(2, CondB, DAM_4, DAM_3, FilePref10, << "B" >>) }

\* Rows of one cell only, as a preference trial and as a noise trial.
PartitionRows ==
    { Row(1, CondA, DAM_3, DAM_OFF, FilePref5, << "A" >>),
      Row(1, CondA, DAM_3, DAM_OFF, FileNoise5, << "A" >>) }

\* Rows of any file: the six pairs of buttons the study uses and two it does
\* not, with well-formed and malformed file names.
ButtonPairs ==
    { << DAM_3, DAM_OFF >>, << DAM_OFF, DAM_3 >>, << DAM_4, DAM_3 >>,
      << DAM_3, DAM_4 >>, << DAM_3, MNR_3 >>, << MNR_3, DAM_3 >>,
      << DAM_OFF, DAM_4 >>, << DAM_3, DAM_3 >> }

OrganizeRows ==
    { Row(1, CondA, ab[1], ab[2], f, << "A" >>) :
        ab \in ButtonPairs,
        f \in { FilePref5, FileNoise10, FileShort, FileTrackOnly } }

(***************************************************************************)
(* The controller script (dam_controller.py).                              *)
(***************************************************************************)
Init ==
    /\ pc = "import"
    /\ raw_data = [columns |-> RawColumns, rows |-> << >>]
    /\ prepped_data = NoTable
    /\ clean_data = NoTable
    /\ error = "none"
    /\ csv_rows = << >>
    /\ files = << >>
    /\ reported = << >>
    /\ dam_clean = NoTable
    /\ RemIdle

\* import_data of a folder with one file: the file has one more row, and
\* the table is what pd.read_csv makes of the rows of the file.
ReadRow(row, max) ==
    /\ pc = "import"
    /\ Len(raw_data.rows) < max
    /\ raw_data' = [raw_data EXCEPT !.rows = read_csv(Append(csv_rows, row))]
    /\ csv_rows' = Append(csv_rows, row)
    /\ UNCHANGED << pc, prepped_data, clean_data, error, damio, rem >>

\* prepped_data = dam.organize_data(raw_data)
Organize ==
    /\ pc = "import"
    /\ LET res == organize_data(raw_data)
       IN  /\ raw_data' = res.data
           /\ prepped_data' = res.ret
           /\ error' = res.error
           /\ pc' = IF res.error = "none" THEN "organized" ELSE "failed"
    /\ UNCHANGED << clean_data, csv_rows, damio, rem >>

\* clean_data = dam.remove_incomplete_datasets(prepped_data)
RemoveIncomplete ==
    /\ pc = "organized"
    /\ LET res == remove_incomplete_datasets(prepped_data)
       IN  /\ clean_data' = res.ret
           /\ error' = res.error
           /\ pc' = IF res.error = "none" THEN "cleaned" ELSE "failed"
           \* raw_data and prepped_data name the one table organize_data returned
           /\ raw_data' = res.data
           /\ prepped_data' = res.data
    /\ UNCHANGED << csv_rows, damio, rem >>

ReadFilterRow == \E row \in FilterRows : ReadRow(row, MaxRows)

ReadPartitionRow == \E row \in PartitionRows : ReadRow(row, MaxRowsPartition)

ReadOrganizeRow == \E row \in OrganizeRows : ReadRow(row, MaxRowsOrganize)

Next == ReadFilterRow \/ Organize \/ RemoveIncomplete

Spec == Init /\ [][Next]_vars

NextPartition == ReadPartitionRow \/ Organize \/ RemoveIncomplete

SpecPartition == Init /\ [][NextPartition]_vars

NextOrganize == ReadOrganizeRow \/ Organize \/ RemoveIncomplete

SpecOrganize == Init /\ [][NextOrganize]_vars

\* Rows of well-formed and of malformed files: one cell in two mirrored
\* directions, the same cell as a noise trial, another subject's cell, a
\* pair of buttons the study does not use and a file name that is a number.
CopiesRows ==
    { Row(1, CondA, DAM_3, DAM_OFF, FilePref5, << "A" >>),
      Row(1, CondA, DAM_OFF, DAM_3, FilePref5, << "B" >>),
      Row(1, CondA, DAM_OFF, DAM_3, FileNoise5, << "A" >>),
      Row(2, CondB, DAM_4, DAM_3, FilePref10, << "B" >>),
      Row(1, CondA, DAM_OFF, DAM_4, FileNoise10, << "A" >>),
      Row(1, CondA, DAM_3, DAM_OFF, FileTrackOnly, << "A" >>) }

ReadCopiesRow == \E row \in CopiesRows : ReadRow(row, MaxRowsCopies)

NextCopies == ReadCopiesRow \/ Organize \/ RemoveIncomplete

SpecCopies == Init /\ [][NextCopies]_vars

(***************************************************************************)
(* import_data(path): the files of the folder are validated by name, read  *)
(* and concatenated.  A file is [name |-> its base name, rows |-> its      *)
(* rows].                                                                  *)
(***************************************************************************)
\* The pattern is a str, so \d and \w are Unicode-aware.  A character is a
\* one-character string; a character outside Latin-1 is written by its code
\* point, "U+" and at least four hexadecimal digits.
HexDigits ==
    << "0", "1", "2", "3", "4", "5", "6", "7", "8", "9",
       "A", "B", "C", "D", "E", "F" >>

RECURSIVE Hex(_, _)
Hex(n, width) ==
    IF n = 0 /\ width <= 0 THEN ""
    ELSE Hex(n \div 16, width - 1) \o HexDigits[(n % 16) + 1]

CodePoint(n) == "U+" \o Hex(n, 4)

\* The characters of ranges of code points, first and last of each.
Written(ranges) ==
    { CodePoint(n) : n \in UNION { ranges[k][1]..ranges[k][2] : k \in 1..Len(ranges) } }

AsciiDigits == { "0", "1", "2", "3", "4", "5", "6", "7", "8", "9" }

\* The decimal digits (category Nd) from U+0100 on.
DecimalDigitRanges ==
    << << \h0660, \h0669 >>, << \h06F0, \h06F9 >>, << \h07C0, \h07C9 >>,
       << \h0966, \h096F >>, << \h09E6, \h09EF >>, << \h0A66, \h0A6F >>,
       << \h0AE6, \h0AEF >>, << \h0B66, \h0B6F >>, << \h0BE6, \h0BEF >>,
       << \h0C66, \h0C6F >>, << \h0CE6, \h0CEF >>, << \h0D66, \h0D6F >>,
       << \h0DE6, \h0DEF >>, << \h0E50, \h0E59 >>, << \h0ED0, \h0ED9 >>,
       << \h0F20, \h0F29 >>, << \h1040, \h1049 >>, << \h1090, \h1099 >>,
       << \h17E0, \h17E9 >>, << \h1810, \h1819 >>, << \h1946, \h194F >>,
       << \h19D0, \h19D9 >>, << \h1A80, \h1A89 >>, << \h1A90, \h1A99 >>,
       << \h1B50, \h1B59 >>, << \h1BB0, \h1BB9 >>, << \h1C40, \h1C49 >>,
       << \h1C50, \h1C59 >>, << \hA620, \hA629 >>, << \hA8D0, \hA8D9 >>,
       << \hA900, \hA909 >>, << \hA9D0, \hA9D9 >>, << \hA9F0, \hA9F9 >>,
       << \hAA50, \hAA59 >>, << \hABF0, \hABF9 >>, << \hFF10, \hFF19 >>,
       << \h104A0, \h104A9 >>, << \h10D30, \h10D39 >>, << \h11066, \h1106F >>,
       << \h110F0, \h110F9 >>, << \h11136, \h1113F >>, << \h111D0, \h111D9 >>,
       << \h112F0, \h112F9 >>, << \h11450, \h11459 >>, << \h114D0, \h114D9 >>,
       << \h11650, \h11659 >>, << \h116C0, \h116C9 >>, << \h11730, \h11739 >>,
       << \h118E0, \h118E9 >>, << \h11950, \h11959 >>, << \h11C50, \h11C59 >>,
       << \h11D50, \h11D59 >>, << \h11DA0, \h11DA9 >>, << \h16A60, \h16A69 >>,
       << \h16AC0, \h16AC9 >>, << \h16B50, \h16B59 >>, << \h1D7CE, \h1D7FF >>,
       << \h1E140, \h1E149 >>, << \h1E2F0, \h1E2F9 >>, << \h1E950, \h1E959 >>,
       << \h1FBF0, \h1FBF9 >> >>

\* \d: the decimal digits
Digits == AsciiDigits \cup Written(DecimalDigitRanges)

AsciiLetters ==
    { "A", "B", "C", "D", "E", "F", "G", "H", "I", "J", "K", "L", "M",
      "N", "O", "P", "Q", "R", "S", "T", "U", "V", "W", "X", "Y", "Z",
      "a", "b", "c", "d", "e", "f", "g", "h", "i", "j", "k", "l", "m",
      "n", "o", "p", "q", "r", "s", "t", "u", "v", "w", "x", "y", "z" }

Latin1Letters ==
    { "ª", "µ", "º", "À", "Á", "Â", "Ã", "Ä", "Å", "Æ", "Ç", "È", "É", "Ê",
      "Ë", "Ì", "Í", "Î", "Ï", "Ð", "Ñ", "Ò", "Ó", "Ô", "Õ", "Ö", "Ø", "Ù",
      "Ú", "Û", "Ü", "Ý", "Þ", "ß", "à", "á", "â", "ã", "ä", "å", "æ", "ç",
      "è", "é", "ê", "ë", "ì", "í", "î", "ï", "ð", "ñ", "ò", "ó", "ô", "õ",
      "ö", "ø", "ù", "ú", "û", "ü", "ý", "þ", "ÿ" }

\* The letters (str.isalpha) from U+0100 on.
LetterRanges ==
    << << \h0100, \h02C1 >>, << \h02C6, \h02D1 >>, << \h02E0, \h02E4 >>,
       << \h02EC, \h02EC >>, << \h02EE, \h02EE >>, << \h0370, \h0374 >>,
       << \h0376, \h0377 >>, << \h037A, \h037D >>, << \h037F, \h037F >>,
       << \h0386, \h0386 >>, << \h0388, \h038A >>, << \h038C, \h038C >>,
       << \h038E, \h03A1 >>, << \h03A3, \h03F5 >>, << \h03F7, \h0481 >>,
       << \h048A, \h052F >>, << \h0531, \h0556 >>, << \h0559, \h0559 >>,
       << \h0560, \h0588 >>, << \h05D0, \h05EA >>, << \h05EF, \h05F2 >>,
       << \h0620, \h064A >>, << \h066E, \h066F >>, << \h0671, \h06D3 >>,
       << \h06D5, \h06D5 >>, << \h06E5, \h06E6 >>, << \h06EE, \h06EF >>,
       << \h06FA, \h06FC >>, << \h06FF, \h06FF >>, << \h0710, \h0710 >>,
       << \h0712, \h072F >>, << \h074D, \h07A5 >>, << \h07B1, \h07B1 >>,
       << \h07CA, \h07EA >>, << \h07F4, \h07F5 >>, << \h07FA, \h07FA >>,
       << \h0800, \h0815 >>, << \h081A, \h081A >>, << \h0824, \h0824 >>,
       << \h0828, \h0828 >>, << \h0840, \h0858 >>, << \h0860, \h086A >>,
       << \h0870, \h0887 >>, << \h0889, \h088E >>, << \h08A0, \h08C9 >>,
       << \h0904, \h0939 >>, << \h093D, \h093D >>, << \h0950, \h0950 >>,
       << \h0958, \h0961 >>, << \h0971, \h0980 >>, << \h0985, \h098C >>,
       << \h098F, \h0990 >>, << \h0993, \h09A8 >>, << \h09AA, \h09B0 >>,
       << \h09B2, \h09B2 >>, << \h09B6, \h09B9 >>, << \h09BD, \h09BD >>,
       << \h09CE, \h09CE >>, << \h09DC, \h09DD >>, << \h09DF, \h09E1 >>,
       << \h09F0, \h09F1 >>, << \h09FC, \h09FC >>, << \h0A05, \h0A0A >>,
       << \h0A0F, \h0A10 >>, << \h0A13, \h0A28 >>, << \h0A2A, \h0A30 >>,
       << \h0A32, \h0A33 >>, << \h0A35, \h0A36 >>, << \h0A38, \h0A39 >>,
       << \h0A59, \h0A5C >>, << \h0A5E, \h0A5E >>, << \h0A72, \h0A74 >>,
       << \h0A85, \h0A8D >>, << \h0A8F, \h0A91 >>, << \h0A93, \h0AA8 >>,
       << \h0AAA, \h0AB0 >>, << \h0AB2, \h0AB3 >>, << \h0AB5, \h0AB9 >>,
       << \h0ABD, \h0ABD >>, << \h0AD0, \h0AD0 >>, << \h0AE0, \h0AE1 >>,
       << \h0AF9, \h0AF9 >>, << \h0B05, \h0B0C >>, << \h0B0F, \h0B10 >>,
       << \h0B13, \h0B28 >>, << \h0B2A, \h0B30 >>, << \h0B32, \h0B33 >>,
       << \h0B35, \h0B39 >>, << \h0B3D, \h0B3D >>, << \h0B5C, \h0B5D >>,
       << \h0B5F, \h0B61 >>, << \h0B71, \h0B71 >>, << \h0B83, \h0B83 >>,
       << \h0B85, \h0B8A >>, << \h0B8E, \h0B90 >>, << \h0B92, \h0B95 >>,
       << \h0B99, \h0B9A >>, << \h0B9C, \h0B9C >>, << \h0B9E, \h0B9F >>,
       << \h0BA3, \h0BA4 >>, << \h0BA8, \h0BAA >>, << \h0BAE, \h0BB9 >>,
       << \h0BD0, \h0BD0 >>, << \h0C05, \h0C0C >>, << \h0C0E, \h0C10 >>,
       << \h0C12, \h0C28 >>, << \h0C2A, \h0C39 >>, << \h0C3D, \h0C3D >>,
       << \h0C58, \h0C5A >>, << \h0C5D, \h0C5D >>, << \h0C60, \h0C61 >>,
       << \h0C80, \h0C80 >>, << \h0C85, \h0C8C >>, << \h0C8E, \h0C90 >>,
       << \h0C92, \h0CA8 >>, << \h0CAA, \h0CB3 >>, << \h0CB5, \h0CB9 >>,
       << \h0CBD, \h0CBD >>, << \h0CDD, \h0CDE >>, << \h0CE0, \h0CE1 >>,
       << \h0CF1, \h0CF2 >>, << \h0D04, \h0D0C >>, << \h0D0E, \h0D10 >>,
       << \h0D12, \h0D3A >>, << \h0D3D, \h0D3D >>, << \h0D4E, \h0D4E >>,
       << \h0D54, \h0D56 >>, << \h0D5F, \h0D61 >>, << \h0D7A, \h0D7F >>,
       << \h0D85, \h0D96 >>, << \h0D9A, \h0DB1 >>, << \h0DB3, \h0DBB >>,
       << \h0DBD, \h0DBD >>, << \h0DC0, \h0DC6 >>, << \h0E01, \h0E30 >>,
       << \h0E32, \h0E33 >>, << \h0E40, \h0E46 >>, << \h0E81, \h0E82 >>,
       << \h0E84, \h0E84 >>, << \h0E86, \h0E8A >>, << \h0E8C, \h0EA3 >>,
       << \h0EA5, \h0EA5 >>, << \h0EA7, \h0EB0 >>, << \h0EB2, \h0EB3 >>,
       << \h0EBD, \h0EBD >>, << \h0EC0, \h0EC4 >>, << \h0EC6, \h0EC6 >>,
       << \h0EDC, \h0EDF >>, << \h0F00, \h0F00 >>, << \h0F40, \h0F47 >>,
       << \h0F49, \h0F6C >>, << \h0F88, \h0F8C >>, << \h1000, \h102A >>,
       << \h103F, \h103F >>, << \h1050, \h1055 >>, << \h105A, \h105D >>,
       << \h1061, \h1061 >>, << \h1065, \h1066 >>, << \h106E, \h1070 >>,
       << \h1075, \h1081 >>, << \h108E, \h108E >>, << \h10A0, \h10C5 >>,
       << \h10C7, \h10C7 >>, << \h10CD, \h10CD >>, << \h10D0, \h10FA >>,
       << \h10FC, \h1248 >>, << \h124A, \h124D >>, << \h1250, \h1256 >>,
       << \h1258, \h1258 >>, << \h125A, \h125D >>, << \h1260, \h1288 >>,
       << \h128A, \h128D >>, << \h1290, \h12B0 >>, << \h12B2, \h12B5 >>,
       << \h12B8, \h12BE >>, << \h12C0, \h12C0 >>, << \h12C2, \h12C5 >>,
       << \h12C8, \h12D6 >>, << \h12D8, \h1310 >>, << \h1312, \h1315 >>,
       << \h1318, \h135A >>, << \h1380, \h138F >>, << \h13A0, \h13F5 >>,
       << \h13F8, \h13FD >>, << \h1401, \h166C >>, << \h166F, \h167F >>,
       << \h1681, \h169A >>, << \h16A0, \h16EA >>, << \h16F1, \h16F8 >>,
       << \h1700, \h1711 >>, << \h171F, \h1731 >>, << \h1740, \h1751 >>,
       << \h1760, \h176C >>, << \h176E, \h1770 >>, << \h1780, \h17B3 >>,
       << \h17D7, \h17D7 >>, << \h17DC, \h17DC >>, << \h1820, \h1878 >>,
       << \h1880, \h1884 >>, << \h1887, \h18A8 >>, << \h18AA, \h18AA >>,
       << \h18B0, \h18F5 >>, << \h1900, \h191E >>, << \h1950, \h196D >>,
       << \h1970, \h1974 >>, << \h1980, \h19AB >>, << \h19B0, \h19C9 >>,
       << \h1A00, \h1A16 >>, << \h1A20, \h1A54 >>, << \h1AA7, \h1AA7 >>,
       << \h1B05, \h1B33 >>, << \h1B45, \h1B4C >>, << \h1B83, \h1BA0 >>,
       << \h1BAE, \h1BAF >>, << \h1BBA, \h1BE5 >>, << \h1C00, \h1C23 >>,
       << \h1C4D, \h1C4F >>, << \h1C5A, \h1C7D >>, << \h1C80, \h1C88 >>,
       << \h1C90, \h1CBA >>, << \h1CBD, \h1CBF >>, << \h1CE9, \h1CEC >>,
       << \h1CEE, \h1CF3 >>, << \h1CF5, \h1CF6 >>, << \h1CFA, \h1CFA >>,
       << \h1D00, \h1DBF >>, << \h1E00, \h1F15 >>, << \h1F18, \h1F1D >>,
       << \h1F20, \h1F45 >>, << \h1F48, \h1F4D >>, << \h1F50, \h1F57 >>,
       << \h1F59, \h1F59 >>, << \h1F5B, \h1F5B >>, << \h1F5D, \h1F5D >>,
       << \h1F5F, \h1F7D >>, << \h1F80, \h1FB4 >>, << \h1FB6, \h1FBC >>,
       << \h1FBE, \h1FBE >>, << \h1FC2, \h1FC4 >>, << \h1FC6, \h1FCC >>,
       << \h1FD0, \h1FD3 >>, << \h1FD6, \h1FDB >>, << \h1FE0, \h1FEC >>,
       << \h1FF2, \h1FF4 >>, << \h1FF6, \h1FFC >>, << \h2071, \h2071 >>,
       << \h207F, \h207F >>, << \h2090, \h209C >>, << \h2102, \h2102 >>,
       << \h2107, \h2107 >>, << \h210A, \h2113 >>, << \h2115, \h2115 >>,
       << \h2119, \h211D >>, << \h2124, \h2124 >>, << \h2126, \h2126 >>,
       << \h2128, \h2128 >>, << \h212A, \h212D >>, << \h212F, \h2139 >>,
       << \h213C, \h213F >>, << \h2145, \h2149 >>, << \h214E, \h214E >>,
       << \h2183, \h2184 >>, << \h2C00, \h2CE4 >>, << \h2CEB, \h2CEE >>,
       << \h2CF2, \h2CF3 >>, << \h2D00, \h2D25 >>, << \h2D27, \h2D27 >>,
       << \h2D2D, \h2D2D >>, << \h2D30, \h2D67 >>, << \h2D6F, \h2D6F >>,
       << \h2D80, \h2D96 >>, << \h2DA0, \h2DA6 >>, << \h2DA8, \h2DAE >>,
       << \h2DB0, \h2DB6 >>, << \h2DB8, \h2DBE >>, << \h2DC0, \h2DC6 >>,
       << \h2DC8, \h2DCE >>, << \h2DD0, \h2DD6 >>, << \h2DD8, \h2DDE >>,
       << \h2E2F, \h2E2F >>, << \h3005, \h3006 >>, << \h3031, \h3035 >>,
       << \h303B, \h303C >>, << \h3041, \h3096 >>, << \h309D, \h309F >>,
       << \h30A1, \h30FA >>, << \h30FC, \h30FF >>, << \h3105, \h312F >>,
       << \h3131, \h318E >>, << \h31A0, \h31BF >>, << \h31F0, \h31FF >>,
       << \h3400, \h4DBF >>, << \h4E00, \hA48C >>, << \hA4D0, \hA4FD >>,
       << \hA500, \hA60C >>, << \hA610, \hA61F >>, << \hA62A, \hA62B >>,
       << \hA640, \hA66E >>, << \hA67F, \hA69D >>, << \hA6A0, \hA6E5 >>,
       << \hA717, \hA71F >>, << \hA722, \hA788 >>, << \hA78B, \hA7CA >>,
       << \hA7D0, \hA7D1 >>, << \hA7D3, \hA7D3 >>, << \hA7D5, \hA7D9 >>,
       << \hA7F2, \hA801 >>, << \hA803, \hA805 >>, << \hA807, \hA80A >>,
       << \hA80C, \hA822 >>, << \hA840, \hA873 >>, << \hA882, \hA8B3 >>,
       << \hA8F2, \hA8F7 >>, << \hA8FB, \hA8FB >>, << \hA8FD, \hA8FE >>,
       << \hA90A, \hA925 >>, << \hA930, \hA946 >>, << \hA960, \hA97C >>,
       << \hA984, \hA9B2 >>, << \hA9CF, \hA9CF >>, << \hA9E0, \hA9E4 >>,
       << \hA9E6, \hA9EF >>, << \hA9FA, \hA9FE >>, << \hAA00, \hAA28 >>,
       << \hAA40, \hAA42 >>, << \hAA44, \hAA4B >>, << \hAA60, \hAA76 >>,
       << \hAA7A, \hAA7A >>, << \hAA7E, \hAAAF >>, << \hAAB1, \hAAB1 >>,
       << \hAAB5, \hAAB6 >>, << \hAAB9, \hAABD >>, << \hAAC0, \hAAC0 >>,
       << \hAAC2, \hAAC2 >>, << \hAADB, \hAADD >>, << \hAAE0, \hAAEA >>,
       << \hAAF2, \hAAF4 >>, << \hAB01, \hAB06 >>, << \hAB09, \hAB0E >>,
       << \hAB11, \hAB16 >>, << \hAB20, \hAB26 >>, << \hAB28, \hAB2E >>,
       << \hAB30, \hAB5A >>, << \hAB5C, \hAB69 >>, << \hAB70, \hABE2 >>,
       << \hAC00, \hD7A3 >>, << \hD7B0, \hD7C6 >>, << \hD7CB, \hD7FB >>,
       << \hF900, \hFA6D >>, << \hFA70, \hFAD9 >>, << \hFB00, \hFB06 >>,
       << \hFB13, \hFB17 >>, << \hFB1D, \hFB1D >>, << \hFB1F, \hFB28 >>,
       << \hFB2A, \hFB36 >>, << \hFB38, \hFB3C >>, << \hFB3E, \hFB3E >>,
       << \hFB40, \hFB41 >>, << \hFB43, \hFB44 >>, << \hFB46, \hFBB1 >>,
       << \hFBD3, \hFD3D >>, << \hFD50, \hFD8F >>, << \hFD92, \hFDC7 >>,
       << \hFDF0, \hFDFB >>, << \hFE70, \hFE74 >>, << \hFE76, \hFEFC >>,
       << \hFF21, \hFF3A >>, << \hFF41, \hFF5A >>, << \hFF66, \hFFBE >>,
       << \hFFC2, \hFFC7 >>, << \hFFCA, \hFFCF >>, << \hFFD2, \hFFD7 >>,
       << \hFFDA, \hFFDC >>, << \h10000, \h1000B >>, << \h1000D, \h10026 >>,
       << \h10028, \h1003A >>, << \h1003C, \h1003D >>, << \h1003F, \h1004D >>,
       << \h10050, \h1005D >>, << \h10080, \h100FA >>, << \h10280, \h1029C >>,
       << \h102A0, \h102D0 >>, << \h10300, \h1031F >>, << \h1032D, \h10340 >>,
       << \h10342, \h10349 >>, << \h10350, \h10375 >>, << \h10380, \h1039D >>,
       << \h103A0, \h103C3 >>, << \h103C8, \h103CF >>, << \h10400, \h1049D >>,
       << \h104B0, \h104D3 >>, << \h104D8, \h104FB >>, << \h10500, \h10527 >>,
       << \h10530, \h10563 >>, << \h10570, \h1057A >>, << \h1057C, \h1058A >>,
       << \h1058C, \h10592 >>, << \h10594, \h10595 >>, << \h10597, \h105A1 >>,
       << \h105A3, \h105B1 >>, << \h105B3, \h105B9 >>, << \h105BB, \h105BC >>,
       << \h10600, \h10736 >>, << \h10740, \h10755 >>, << \h10760, \h10767 >>,
       << \h10780, \h10785 >>, << \h10787, \h107B0 >>, << \h107B2, \h107BA >>,
       << \h10800, \h10805 >>, << \h10808, \h10808 >>, << \h1080A, \h10835 >>,
       << \h10837, \h10838 >>, << \h1083C, \h1083C >>, << \h1083F, \h10855 >>,
       << \h10860, \h10876 >>, << \h10880, \h1089E >>, << \h108E0, \h108F2 >>,
       << \h108F4, \h108F5 >>, << \h10900, \h10915 >>, << \h10920, \h10939 >>,
       << \h10980, \h109B7 >>, << \h109BE, \h109BF >>, << \h10A00, \h10A00 >>,
       << \h10A10, \h10A13 >>, << \h10A15, \h10A17 >>, << \h10A19, \h10A35 >>,
       << \h10A60, \h10A7C >>, << \h10A80, \h10A9C >>, << \h10AC0, \h10AC7 >>,
       << \h10AC9, \h10AE4 >>, << \h10B00, \h10B35 >>, << \h10B40, \h10B55 >>,
       << \h10B60, \h10B72 >>, << \h10B80, \h10B91 >>, << \h10C00, \h10C48 >>,
       << \h10C80, \h10CB2 >>, << \h10CC0, \h10CF2 >>, << \h10D00, \h10D23 >>,
       << \h10E80, \h10EA9 >>, << \h10EB0, \h10EB1 >>, << \h10F00, \h10F1C >>,
       << \h10F27, \h10F27 >>, << \h10F30, \h10F45 >>, << \h10F70, \h10F81 >>,
       << \h10FB0, \h10FC4 >>, << \h10FE0, \h10FF6 >>, << \h11003, \h11037 >>,
       << \h11071, \h11072 >>, << \h11075, \h11075 >>, << \h11083, \h110AF >>,
       << \h110D0, \h110E8 >>, << \h11103, \h11126 >>, << \h11144, \h11144 >>,
       << \h11147, \h11147 >>, << \h11150, \h11172 >>, << \h11176, \h11176 >>,
       << \h11183, \h111B2 >>, << \h111C1, \h111C4 >>, << \h111DA, \h111DA >>,
       << \h111DC, \h111DC >>, << \h11200, \h11211 >>, << \h11213, \h1122B >>,
       << \h11280, \h11286 >>, << \h11288, \h11288 >>, << \h1128A, \h1128D >>,
       << \h1128F, \h1129D >>, << \h1129F, \h112A8 >>, << \h112B0, \h112DE >>,
       << \h11305, \h1130C >>, << \h1130F, \h11310 >>, << \h11313, \h11328 >>,
       << \h1132A, \h11330 >>, << \h11332, \h11333 >>, << \h11335, \h11339 >>,
       << \h1133D, \h1133D >>, << \h11350, \h11350 >>, << \h1135D, \h11361 >>,
       << \h11400, \h11434 >>, << \h11447, \h1144A >>, << \h1145F, \h11461 >>,
       << \h11480, \h114AF >>, << \h114C4, \h114C5 >>, << \h114C7, \h114C7 >>,
       << \h11580, \h115AE >>, << \h115D8, \h115DB >>, << \h11600, \h1162F >>,
       << \h11644, \h11644 >>, << \h11680, \h116AA >>, << \h116B8, \h116B8 >>,
       << \h11700, \h1171A >>, << \h11740, \h11746 >>, << \h11800, \h1182B >>,
       << \h118A0, \h118DF >>, << \h118FF, \h11906 >>, << \h11909, \h11909 >>,
       << \h1190C, \h11913 >>, << \h11915, \h11916 >>, << \h11918, \h1192F >>,
       << \h1193F, \h1193F >>, << \h11941, \h11941 >>, << \h119A0, \h119A7 >>,
       << \h119AA, \h119D0 >>, << \h119E1, \h119E1 >>, << \h119E3, \h119E3 >>,
       << \h11A00, \h11A00 >>, << \h11A0B, \h11A32 >>, << \h11A3A, \h11A3A >>,
       << \h11A50, \h11A50 >>, << \h11A5C, \h11A89 >>, << \h11A9D, \h11A9D >>,
       << \h11AB0, \h11AF8 >>, << \h11C00, \h11C08 >>, << \h11C0A, \h11C2E >>,
       << \h11C40, \h11C40 >>, << \h11C72, \h11C8F >>, << \h11D00, \h11D06 >>,
       << \h11D08, \h11D09 >>, << \h11D0B, \h11D30 >>, << \h11D46, \h11D46 >>,
       << \h11D60, \h11D65 >>, << \h11D67, \h11D68 >>, << \h11D6A, \h11D89 >>,
       << \h11D98, \h11D98 >>, << \h11EE0, \h11EF2 >>, << \h11FB0, \h11FB0 >>,
       << \h12000, \h12399 >>, << \h12480, \h12543 >>, << \h12F90, \h12FF0 >>,
       << \h13000, \h1342E >>, << \h14400, \h14646 >>, << \h16800, \h16A38 >>,
       << \h16A40, \h16A5E >>, << \h16A70, \h16ABE >>, << \h16AD0, \h16AED >>,
       << \h16B00, \h16B2F >>, << \h16B40, \h16B43 >>, << \h16B63, \h16B77 >>,
       << \h16B7D, \h16B8F >>, << \h16E40, \h16E7F >>, << \h16F00, \h16F4A >>,
       << \h16F50, \h16F50 >>, << \h16F93, \h16F9F >>, << \h16FE0, \h16FE1 >>,
       << \h16FE3, \h16FE3 >>, << \h17000, \h187F7 >>, << \h18800, \h18CD5 >>,
       << \h18D00, \h18D08 >>, << \h1AFF0, \h1AFF3 >>, << \h1AFF5, \h1AFFB >>,
       << \h1AFFD, \h1AFFE >>, << \h1B000, \h1B122 >>, << \h1B150, \h1B152 >>,
       << \h1B164, \h1B167 >>, << \h1B170, \h1B2FB >>, << \h1BC00, \h1BC6A >>,
       << \h1BC70, \h1BC7C >>, << \h1BC80, \h1BC88 >>, << \h1BC90, \h1BC99 >>,
       << \h1D400, \h1D454 >>, << \h1D456, \h1D49C >>, << \h1D49E, \h1D49F >>,
       << \h1D4A2, \h1D4A2 >>, << \h1D4A5, \h1D4A6 >>, << \h1D4A9, \h1D4AC >>,
       << \h1D4AE, \h1D4B9 >>, << \h1D4BB, \h1D4BB >>, << \h1D4BD, \h1D4C3 >>,
       << \h1D4C5, \h1D505 >>, << \h1D507, \h1D50A >>, << \h1D50D, \h1D514 >>,
       << \h1D516, \h1D51C >>, << \h1D51E, \h1D539 >>, << \h1D53B, \h1D53E >>,
       << \h1D540, \h1D544 >>, << \h1D546, \h1D546 >>, << \h1D54A, \h1D550 >>,
       << \h1D552, \h1D6A5 >>, << \h1D6A8, \h1D6C0 >>, << \h1D6C2, \h1D6DA >>,
       << \h1D6DC, \h1D6FA >>, << \h1D6FC, \h1D714 >>, << \h1D716, \h1D734 >>,
       << \h1D736, \h1D74E >>, << \h1D750, \h1D76E >>, << \h1D770, \h1D788 >>,
       << \h1D78A, \h1D7A8 >>, << \h1D7AA, \h1D7C2 >>, << \h1D7C4, \h1D7CB >>,
       << \h1DF00, \h1DF1E >>, << \h1E100, \h1E12C >>, << \h1E137, \h1E13D >>,
       << \h1E14E, \h1E14E >>, << \h1E290, \h1E2AD >>, << \h1E2C0, \h1E2EB >>,
       << \h1E7E0, \h1E7E6 >>, << \h1E7E8, \h1E7EB >>, << \h1E7ED, \h1E7EE >>,
       << \h1E7F0, \h1E7FE >>, << \h1E800, \h1E8C4 >>, << \h1E900, \h1E943 >>,
       << \h1E94B, \h1E94B >>, << \h1EE00, \h1EE03 >>, << \h1EE05, \h1EE1F >>,
       << \h1EE21, \h1EE22 >>, << \h1EE24, \h1EE24 >>, << \h1EE27, \h1EE27 >>,
       << \h1EE29, \h1EE32 >>, << \h1EE34, \h1EE37 >>, << \h1EE39, \h1EE39 >>,
       << \h1EE3B, \h1EE3B >>, << \h1EE42, \h1EE42 >>, << \h1EE47, \h1EE47 >>,
       << \h1EE49, \h1EE49 >>, << \h1EE4B, \h1EE4B >>, << \h1EE4D, \h1EE4F >>,
       << \h1EE51, \h1EE52 >>, << \h1EE54, \h1EE54 >>, << \h1EE57, \h1EE57 >>,
       << \h1EE59, \h1EE59 >>, << \h1EE5B, \h1EE5B >>, << \h1EE5D, \h1EE5D >>,
       << \h1EE5F, \h1EE5F >>, << \h1EE61, \h1EE62 >>, << \h1EE64, \h1EE64 >>,
       << \h1EE67, \h1EE6A >>, << \h1EE6C, \h1EE72 >>, << \h1EE74, \h1EE77 >>,
       << \h1EE79, \h1EE7C >>, << \h1EE7E, \h1EE7E >>, << \h1EE80, \h1EE89 >>,
       << \h1EE8B, \h1EE9B >>, << \h1EEA1, \h1EEA3 >>, << \h1EEA5, \h1EEA9 >>,
       << \h1EEAB, \h1EEBB >>, << \h20000, \h2A6DF >>, << \h2A700, \h2B738 >>,
       << \h2B740, \h2B81D >>, << \h2B820, \h2CEA1 >>, << \h2CEB0, \h2EBE0 >>,
       << \h2F800, \h2FA1D >>, << \h30000, \h3134A >> >>

Letters == AsciiLetters \cup Latin1Letters \cup Written(LetterRanges)

Latin1Numerics == { "²", "³", "¹", "¼", "½", "¾" }

\* The numeric characters from U+0100 on that are neither decimal digits
\* nor letters.
OtherNumericRanges ==
    << << \h09F4, \h09F9 >>, << \h0B72, \h0B77 >>, << \h0BF0, \h0BF2 >>,
       << \h0C78, \h0C7E >>, << \h0D58, \h0D5E >>, << \h0D70, \h0D78 >>,
       << \h0F2A, \h0F33 >>, << \h1369, \h137C >>, << \h16EE, \h16F0 >>,
       << \h17F0, \h17F9 >>, << \h19DA, \h19DA >>, << \h2070, \h2070 >>,
       << \h2074, \h2079 >>, << \h2080, \h2089 >>, << \h2150, \h2182 >>,
       << \h2185, \h2189 >>, << \h2460, \h249B >>, << \h24EA, \h24FF >>,
       << \h2776, \h2793 >>, << \h2CFD, \h2CFD >>, << \h3007, \h3007 >>,
       << \h3021, \h3029 >>, << \h3038, \h303A >>, << \h3192, \h3195 >>,
       << \h3220, \h3229 >>, << \h3248, \h324F >>, << \h3251, \h325F >>,
       << \h3280, \h3289 >>, << \h32B1, \h32BF >>, << \hA6E6, \hA6EF >>,
       << \hA830, \hA835 >>, << \h10107, \h10133 >>, << \h10140, \h10178 >>,
       << \h1018A, \h1018B >>, << \h102E1, \h102FB >>, << \h10320, \h10323 >>,
       << \h10341, \h10341 >>, << \h1034A, \h1034A >>, << \h103D1, \h103D5 >>,
       << \h10858, \h1085F >>, << \h10879, \h1087F >>, << \h108A7, \h108AF >>,
       << \h108FB, \h108FF >>, << \h10916, \h1091B >>, << \h109BC, \h109BD >>,
       << \h109C0, \h109CF >>, << \h109D2, \h109FF >>, << \h10A40, \h10A48 >>,
       << \h10A7D, \h10A7E >>, << \h10A9D, \h10A9F >>, << \h10AEB, \h10AEF >>,
       << \h10B58, \h10B5F >>, << \h10B78, \h10B7F >>, << \h10BA9, \h10BAF >>,
       << \h10CFA, \h10CFF >>, << \h10E60, \h10E7E >>, << \h10F1D, \h10F26 >>,
       << \h10F51, \h10F54 >>, << \h10FC5, \h10FCB >>, << \h11052, \h11065 >>,
       << \h111E1, \h111F4 >>, << \h1173A, \h1173B >>, << \h118EA, \h118F2 >>,
       << \h11C5A, \h11C6C >>, << \h11FC0, \h11FD4 >>, << \h12400, \h1246E >>,
       << \h16B5B, \h16B61 >>, << \h16E80, \h16E96 >>, << \h1D2E0, \h1D2F3 >>,
       << \h1D360, \h1D378 >>, << \h1E8C7, \h1E8CF >>, << \h1EC71, \h1ECAB >>,
       << \h1ECAD, \h1ECAF >>, << \h1ECB1, \h1ECB4 >>, << \h1ED01, \h1ED2D >>,
       << \h1ED2F, \h1ED3D >>, << \h1F100, \h1F10C >> >>

\* Numeric characters that are no decimal digits: \w matches them, \d not.
OtherNumerics == Latin1Numerics \cup Written(OtherNumericRanges)

\* \w: alphanumeric or the underscore
WordChars == Digits \cup Letters \cup OtherNumerics \cup { "_" }

Months ==
    { << "J", "a", "n" >>, << "F", "e", "b" >>, << "M", "a", "r" >>,
      << "A", "p", "r" >>, << "M", "a", "y" >>, << "J", "u", "n" >>,
      << "J", "u", "l" >>, << "A", "u", "g" >>, << "S", "e", "p" >>,
      << "O", "c", "t" >>, << "N", "o", "v" >>, << "D", "e", "c" >> }

\* The part of the pattern after \w+ matches exactly this many characters:
\* _dddd_Mon_dd_dddd.csv
TailLength == 21

\* $ matches at the end of the string and also just before a newline that is
\* its last character: what the rest of the pattern has to match.
BeforeFinalNewline(file_name) ==
    IF file_name # << >> /\ file_name[Len(file_name)] = "\n"
    THEN SubSeq(file_name, 1, Len(file_name) - 1)
    ELSE file_name

\* re.match(pattern, file_name) for the pattern
\* ^\d{4}_\w+_\d{4}_(Jan|...|Dec)_\d{2}_\d{2}\d{2}\.csv$
\* \w+ takes whatever lies between the first five characters and the tail.
_validate_file_name(file_name) ==
    LET matched == BeforeFinalNewline(file_name)
        n == Len(matched)
        t == SubSeq(matched, n - TailLength + 1, n)
    IN  /\ n >= 5 + 1 + TailLength
        /\ \A i \in 1..4 : matched[i] \in Digits
        /\ matched[5] = "_"
        /\ \A i \in 6..(n - TailLength) : matched[i] \in WordChars
        /\ t[1] = "_"
        /\ \A i \in 2..5 : t[i] \in Digits
        /\ t[6] = "_"
        /\ SubSeq(t, 7, 9) \in Months
        /\ t[10] = "_"
        /\ \A i \in 11..12 : t[i] \in Digits
        /\ t[13] = "_"
        /\ \A i \in 14..17 : t[i] \in Digits
        /\ SubSeq(t, 18, 21) = << ".", "c", "s", "v" >>

\* temp = pd.read_csv(file) for each file and pd.concat(df_list), for the
\* rows: a column that is numeric in one file and not in another holds the
\* integers of the one beside the strings of the other.
RECURSIVE ConcatRows(_)
ConcatRows(fs) ==
    IF fs = << >> THEN << >> ELSE read_csv(Head(fs).rows) \o ConcatRows(Tail(fs))

\* The rows of the files as they are written in them, in reading order.
RECURSIVE CsvRows(_)
CsvRows(fs) ==
    IF fs = << >> THEN << >> ELSE Head(fs).rows \o CsvRows(Tail(fs))

\* invalid_format: the names that do not match, in reading order
RECURSIVE InvalidFormat(_)
InvalidFormat(fs) ==
    IF fs = << >> THEN << >>
    ELSE (IF _validate_file_name(Head(fs).name) THEN << >> ELSE << Head(fs).name >>)
             \o InvalidFormat(Tail(fs))

\* No check of invalid_format: data is returned whatever the names are.
ReturnedAlways(data, invalid_format) == data

\* if invalid_format: ... return None; else: return data
Returned(data, invalid_format) ==
    IF invalid_format # << >> THEN NoTable ELSE data

\* The result: the returned table (ret), the names logged as invalid
\* (reported) and the exception raised.  pd.concat raises ValueError when
\* there is no file at all.
import_data(fs) ==
    IF fs = << >>
    THEN [ret |-> NoTable, reported |-> << >>, error |-> "ValueError"]
    ELSE [ret      |-> Returned([columns |-> RawColumns, rows |-> ConcatRows(fs)],
                                InvalidFormat(fs)),
          reported |-> InvalidFormat(fs),
          error    |-> "none"]

\* 1234_A_2024_Jul_18_0930.csv
NameValid1 ==
    << "1", "2", "3", "4", "_", "A", "_", "2", "0", "2", "4", "_", "J",
       "u", "l", "_", "1", "8", "_", "0", "9", "3", "0", ".", "c", "s",
       "v" >>

\* 5678_B_x_2024_Jan_02_1015.csv
NameValid2 ==
    << "5", "6", "7", "8", "_", "B", "_", "x", "_", "2", "0", "2", "4",
       "_", "J", "a", "n", "_", "0", "2", "_", "1", "0", "1", "5", ".",
       "c", "s", "v" >>

\* 1234_A_2024_July_18_0930.csv
NameLongMonth ==
    << "1", "2", "3", "4", "_", "A", "_", "2", "0", "2", "4", "_", "J",
       "u", "l", "y", "_", "1", "8", "_", "0", "9", "3", "0", ".", "c",
       "s", "v" >>

\* 1234_é_2024_Jul_18_0930.csv: a letter outside ASCII
NameAccent ==
    << "1", "2", "3", "4", "_", "é", "_", "2", "0", "2", "4", "_", "J",
       "u", "l", "_", "1", "8", "_", "0", "9", "3", "0", ".", "c", "s",
       "v" >>

\* 1234_<U+0436>_2024_Jul_18_093<U+FF10>.csv: a Cyrillic letter and a
\* fullwidth digit
NameUnicode ==
    << "1", "2", "3", "4", "_", "U+0436", "_", "2", "0", "2", "4", "_", "J",
       "u", "l", "_", "1", "8", "_", "0", "9", "3", "U+FF10", ".", "c", "s",
       "v" >>

\* notes.csv
NameNotes == << "n", "o", "t", "e", "s", ".", "c", "s", "v" >>

FileNames ==
    { NameValid1, NameValid2, NameAccent, NameUnicode, NameLongMonth, NameNotes }

\* What a file holds: a well-formed row, alone or followed by a row with a
\* pair of buttons that is no key of COMPARISONS, a row with a short audio
\* file name, or a row whose audio file name is a number.
FileContents ==
    { << Row(1, CondA, DAM_3, DAM_OFF, FilePref5, << "A" >>) >>,
      << Row(1, CondA, DAM_3, DAM_OFF, FilePref5, << "A" >>),
         Row(1, CondA, DAM_OFF, DAM_4, FileNoise5, << "A" >>) >>,
      << Row(2, CondB, DAM_4, DAM_3, FileShort, << "B" >>) >>,
      << Row(1, CondA, DAM_3, DAM_OFF, FileTrackOnly, << "A" >>) >> }

InitImport ==
    /\ pc = "start"
    /\ raw_data = NoTable
    /\ prepped_data = NoTable
    /\ clean_data = NoTable
    /\ error = "none"
    /\ csv_rows = << >>
    /\ files = << >>
    /\ reported = << >>
    /\ dam_clean = NoTable
    /\ RemIdle

\* One more CSV file in the results folder.
AddFile ==
    /\ pc = "start"
    /\ Len(files) < MaxFiles
    /\ \E name \in FileNames, rows \in FileContents :
           /\ \A i \in 1..Len(files) : files[i].name # name
           /\ files' = Append(files, [name |-> name, rows |-> rows])
    /\ UNCHANGED << pc, raw_data, prepped_data, clean_data, error, csv_rows,
                    reported, dam_clean, rem >>

\* raw_data = dam.import_data(path); if isinstance(raw_data, pd.DataFrame):
ImportData ==
    /\ pc = "start"
    /\ LET res == import_data(files)
       IN  /\ raw_data' = res.ret
           /\ reported' = res.reported
           /\ error' = res.error
           /\ pc' = IF res.error # "none" THEN "failed"
                    ELSE IF IsTable(res.ret) THEN "import"
                    ELSE "stopped"
    /\ csv_rows' = CsvRows(files)
    /\ UNCHANGED << prepped_data, clean_data, files, dam_clean, rem >>

\* clean_data.to_csv('dam_clean.csv')
WriteCsv ==
    /\ pc = "cleaned"
    /\ dam_clean' = clean_data
    /\ pc' = "written"
    /\ UNCHANGED << raw_data, prepped_data, clean_data, error, csv_rows,
                    files, reported, rem >>

NextImport == AddFile \/ ImportData \/ Organize \/ RemoveIncomplete \/ WriteCsv

SpecImport == InitImport /\ [][NextImport]_vars

(***************************************************************************)
(* Properties of remove_incomplete_datasets.                               *)
(***************************************************************************)
Cleaned == pc = "cleaned"

\* The cell of a row and the sub-table it belongs to.
CellOf(row) == << row.subject, row.comparison, row.snr, row.condition >>
InPrefs(row) == row.type = << "p", "r", "e", "f" >>

\* The rows of one cell in one sub-table.
Group(rows, cell, prefs) ==
    { i \in 1..Len(rows) : CellOf(rows[i]) = cell /\ InPrefs(rows[i]) = prefs }

GroupSize(rows, cell, prefs) == Cardinality(Group(rows, cell, prefs))

\* How many times a row occurs in a table.
Mult(rows, row) == Cardinality({ i \in 1..Len(rows) : rows[i] = row })

Cells(rows) == { CellOf(rows[i]) : i \in 1..Len(rows) }

\* C1: in the table remove_incomplete_datasets returns, every group of rows
\* with one (subject, comparison, snr, condition) key in one type partition
\* has exactly 4 rows.
C1_RetainedGroupsHaveFour ==
    Cleaned =>
        \A i \in 1..Len(clean_data.rows) :
            GroupSize(clean_data.rows, CellOf(clean_data.rows[i]),
                      InPrefs(clean_data.rows[i])) = 4

\* A table with a group that is kept and two rows of other groups.
C1_Witness ==
    /\ Cleaned
    /\ Len(clean_data.rows) > 0
    /\ Len(prepped_data.rows) = Len(clean_data.rows) + 2

\* C2: a row is missing from the result only if its group (same key, same
\* type partition) had a number of rows other than 4 (and more than 0); the
\* rows of a group of exactly 4 are all in the result.
C2_OnlyIncompleteGroupsLoseRows ==
    Cleaned =>
        \A i \in 1..Len(prepped_data.rows) :
            LET row == prepped_data.rows[i]
                size == GroupSize(prepped_data.rows, CellOf(row), InPrefs(row))
            IN  /\ Mult(clean_data.rows, row) < Mult(prepped_data.rows, row)
                       => (size > 0 /\ size # 4)
                /\ size = 4
                       => Mult(clean_data.rows, row) = Mult(prepped_data.rows, row)

\* A complete group is kept in full while a row of another group is gone.
C2_Witness ==
    /\ Cleaned
    /\ \E i, j \in 1..Len(prepped_data.rows) :
           /\ GroupSize(prepped_data.rows, CellOf(prepped_data.rows[i]),
                        InPrefs(prepped_data.rows[i])) = 4
           /\ Mult(clean_data.rows, prepped_data.rows[i]) > 0
           /\ Mult(clean_data.rows, prepped_data.rows[j]) = 0

\* C3: groups are removed whole, never trimmed: per key and type partition
\* the result has either none or all of the rows; a group of 1, 2 or 3 rows
\* loses all of them and a group of 5 or more is not cut down to 4.
C3_WholesaleNeverTrimmed ==
    Cleaned =>
        \A cell \in Cells(prepped_data.rows) : \A prefs \in BOOLEAN :
            LET before == GroupSize(prepped_data.rows, cell, prefs)
                after == GroupSize(clean_data.rows, cell, prefs)
            IN  /\ after \in {0, before}
                /\ before \in 1..3 => after = 0
                /\ before >= 5 => after # 4

\* A group of five rows and a group of three rows were both removed whole.
C3_Witness ==
    /\ Cleaned
    /\ \E c1, c2 \in Cells(prepped_data.rows) : \E p1, p2 \in BOOLEAN :
           /\ GroupSize(prepped_data.rows, c1, p1) = 5
           /\ GroupSize(clean_data.rows, c1, p1) = 0
           /\ GroupSize(prepped_data.rows, c2, p2) \in 1..3
           /\ GroupSize(clean_data.rows, c2, p2) = 0

\* C4: completeness is counted separately in the pref and the noise
\* sub-table and the results are concatenated, prefs first: for one key,
\* 4 pref and 4 noise rows keep all 8, 4 pref and 2 noise rows keep only the
\* 4 pref rows, and 2 pref and 2 noise rows keep none.
C4_PartitionsCountedSeparately ==
    Cleaned =>
        /\ \A cell \in Cells(prepped_data.rows) :
              LET p == GroupSize(prepped_data.rows, cell, TRUE)
                  n == GroupSize(prepped_data.rows, cell, FALSE)
                  keptP == GroupSize(clean_data.rows, cell, TRUE)
                  keptN == GroupSize(clean_data.rows, cell, FALSE)
              IN  /\ (p = 4 /\ n = 4) => (keptP = 4 /\ keptN = 4)
                  /\ (p = 4 /\ n = 2) => (keptP = 4 /\ keptN = 0)
                  /\ (p = 2 /\ n = 2) => (keptP = 0 /\ keptN = 0)
                  /\ keptP = (IF p = 4 THEN 4 ELSE 0)
                  /\ keptN = (IF n = 4 THEN 4 ELSE 0)
        /\ \A i, j \in 1..Len(clean_data.rows) :
              (InPrefs(clean_data.rows[i]) /\ ~ InPrefs(clean_data.rows[j])) => i < j

\* Four pref rows and four noise rows of one key: all eight are kept.
C4_Witness ==
    /\ Cleaned
    /\ Len(clean_data.rows) = 8
    /\ \E cell \in Cells(prepped_data.rows) :
           /\ GroupSize(prepped_data.rows, cell, TRUE) = 4
           /\ GroupSize(prepped_data.rows, cell, FALSE) = 4

\* A combination of observed subject, comparison, snr and condition values
\* of one sub-table that no row of the sub-table has.
AbsentCombination(rows) ==
    \E prefs \in BOOLEAN :
        LET part == { i \in 1..Len(rows) : InPrefs(rows[i]) = prefs }
        IN  \E a, b, c, e \in part :
                << rows[a].subject, rows[b].comparison,
                   rows[c].snr, rows[e].condition >>
                    \notin { CellOf(rows[i]) : i \in part }

\* C5: a combination of the Cartesian product that has no rows never makes
\* remove_incomplete_datasets fail: the call raises nothing, and no row of a
\* complete group is removed because of the missing combination.
C5_AbsentCombinationSkipped ==
    /\ (pc = "failed" /\ IsTable(prepped_data)) => ~ AbsentCombination(prepped_data.rows)
    /\ (Cleaned /\ AbsentCombination(prepped_data.rows)) =>
           /\ error = "none"
           /\ IsTable(clean_data)
           /\ \A cell \in Cells(prepped_data.rows) : \A prefs \in BOOLEAN :
                  GroupSize(prepped_data.rows, cell, prefs) = 4
                      => GroupSize(clean_data.rows, cell, prefs) = 4

\* A sparse table (a combination without rows) with a complete group kept.
C5_Witness ==
    /\ Cleaned
    /\ AbsentCombination(prepped_data.rows)
    /\ Len(clean_data.rows) = 4

(***************************************************************************)
(* Properties of COMPARISONS and organize_data.                            *)
(***************************************************************************)
Organized == pc = "organized"

\* 'X-Y' mirrored: 'Y-X'
Mirror(label) ==
    LET p == CHOOSE i \in 1..Len(label) : label[i] = "-"
    IN  SubSeq(label, p + 1, Len(label)) \o << "-" >> \o SubSeq(label, 1, p - 1)

\* The button pair of a row of the files, as one label.
RawLabel(row) == row.button_A \o << "-" >> \o row.button_B

\* C6: for every key 'X-Y' of COMPARISONS the mirrored label 'Y-X' is a key
\* too and both map to the same label, one of 'X-Y' and 'Y-X'; so two rows
\* with mirrored button pairs get the same comparison from organize_data.
C6_MirrorsShareCanonicalLabel ==
    /\ \A k \in ComparisonKeys :
           /\ Mirror(k) \in ComparisonKeys
           /\ COMPARISONS(k) = COMPARISONS(Mirror(k))
           /\ COMPARISONS(k) \in { k, Mirror(k) }
    /\ COMPARISONS(Label(DAM_4, DAM_3)) = Label(DAM_3, DAM_4)
    /\ COMPARISONS(Label(DAM_3, DAM_4)) = Label(DAM_3, DAM_4)
    /\ Organized =>
           \A i, j \in 1..Len(prepped_data.rows) :
               RawLabel(csv_rows[i]) = Mirror(RawLabel(csv_rows[j]))
                   => /\ prepped_data.rows[i].comparison
                             = prepped_data.rows[j].comparison
                      /\ prepped_data.rows[i].comparison
                             \in { RawLabel(csv_rows[i]), RawLabel(csv_rows[j]) }

\* An organised table with the two directions of one pair of buttons.
C6_Witness ==
    /\ Organized
    /\ \E i, j \in 1..Len(prepped_data.rows) :
           /\ RawLabel(csv_rows[i]) = Mirror(RawLabel(csv_rows[j]))
           /\ RawLabel(csv_rows[i]) # RawLabel(csv_rows[j])

\* C7: canonicalisation is idempotent: for each key k, COMPARISONS[k] is a
\* key and COMPARISONS[COMPARISONS[k]] = COMPARISONS[k]; flipping the
\* comparisons of an organised table again changes nothing.
C7_CanonicalisationIdempotent ==
    /\ Cardinality(ComparisonKeys) = 6
    /\ \A k \in ComparisonKeys :
           /\ COMPARISONS(k) \in ComparisonKeys
           /\ COMPARISONS(COMPARISONS(k)) = COMPARISONS(k)
    /\ Organized =>
           /\ FlipMirrored(prepped_data).error = "none"
           /\ FlipMirrored(prepped_data).data = prepped_data

\* An organised table with a row whose label was flipped.
C7_Witness ==
    /\ Organized
    /\ \E i \in 1..Len(prepped_data.rows) :
           prepped_data.rows[i].comparison # RawLabel(csv_rows[i])

\* The six labels the lookup knows.
KnownLabels ==
    { DAM_3 \o << "-" >> \o DAM_OFF, DAM_4 \o << "-" >> \o DAM_3,
      DAM_3 \o << "-" >> \o MNR_3, DAM_OFF \o << "-" >> \o DAM_3,
      DAM_3 \o << "-" >> \o DAM_4, MNR_3 \o << "-" >> \o DAM_3 }

Called == pc \in { "organized", "failed", "cleaned" }

\* C8: if some record's button_A + '-' + button_B is not one of the 6 keys,
\* organize_data stops with an error and returns no table: the record is
\* neither dropped nor passed through with its raw label.
C8_UnknownLabelStops ==
    (Called /\ \E i \in 1..Len(csv_rows) : RawLabel(csv_rows[i]) \notin KnownLabels)
        => /\ pc = "failed"
           /\ error # "none"
           /\ ~ IsTable(prepped_data)
           /\ ~ IsTable(clean_data)

\* The number of underscore-delimited tokens of a file name.
Underscores(file) == { i \in 1..Len(file) : file[i] = "_" }
TokenCount(file) == Cardinality(Underscores(file)) + 1

\* A known and an unknown label, file names well-formed: the lookup failed.
C8_Witness ==
    /\ pc = "failed"
    /\ error = "KeyError"
    /\ \E i, j \in 1..Len(csv_rows) :
           /\ RawLabel(csv_rows[i]) \notin KnownLabels
           /\ RawLabel(csv_rows[j]) \in KnownLabels
    /\ \A i \in 1..Len(csv_rows) : TokenCount(csv_rows[i].audio_file) >= 5

\* The file was read with a numeric audio_file column: every audio_file of
\* it is written in digits.
ReadAsNumbers ==
    /\ raw_data.rows # << >>
    /\ \A i \in 1..Len(raw_data.rows) : IsInteger(raw_data.rows[i].audio_file)

\* C9: if some record's audio_file has fewer than 5 underscore-delimited
\* tokens, organize_data fails for the whole batch and returns no table
\* (with IndexError, or with AttributeError when the audio_file column was
\* read as numbers); if every audio_file has 5 or more tokens it never fails
\* for this reason.
C9_ShortFileNameStops ==
    Called =>
        /\ (\E i \in 1..Len(csv_rows) : TokenCount(csv_rows[i].audio_file) < 5)
               => /\ pc = "failed"
                  /\ error = IF ReadAsNumbers THEN "AttributeError" ELSE "IndexError"
                  /\ ~ IsTable(prepped_data)
                  /\ ~ IsTable(clean_data)
        /\ (\A i \in 1..Len(csv_rows) : TokenCount(csv_rows[i].audio_file) >= 5)
               => error \notin { "IndexError", "AttributeError", "TypeError" }

\* A batch with one well-formed and one malformed file name failed whole.
C9_Witness ==
    /\ pc = "failed"
    /\ error = "IndexError"
    /\ \E i, j \in 1..Len(csv_rows) :
           /\ TokenCount(csv_rows[i].audio_file) < 5
           /\ TokenCount(csv_rows[j].audio_file) >= 5

\* The k-th underscore-delimited token: what lies between the (k-1)-th and
\* the k-th underscore (the ends of the name standing in at both sides).
Token(file, k) ==
    LET cuts == Underscores(file) \cup { 0, Len(file) + 1 }
        nth(m) == CHOOSE c \in cuts : Cardinality({ x \in cuts : x < c }) = m
    IN  SubSeq(file, nth(k - 1) + 1, nth(k) - 1)

\* C10: for every record of a table organize_data accepts, snr is the 5th
\* underscore-delimited token of audio_file, tracks the 1st, type is 'noise'
\* exactly when the track is a noise track and 'pref' otherwise, comparison
\* is the canonical form of button_A + '-' + button_B ('DAM_3-DAM_OFF'
\* becomes 'DAM_OFF-DAM_3'); the other fields are as read and no row is
\* added or removed.
C10_DerivedColumns ==
    Organized =>
        /\ Len(prepped_data.rows) = Len(csv_rows)
        /\ \A i \in 1..Len(csv_rows) :
              LET in == csv_rows[i]
                  out == prepped_data.rows[i]
              IN  /\ \A c \in DOMAIN in : out[c] = in[c]
                  /\ out.snr = Token(in.audio_file, 5)
                  /\ out.tracks = Token(in.audio_file, 1)
                  /\ out.type = IF out.tracks \in NOISE_TRACKS
                                THEN << "n", "o", "i", "s", "e" >>
                                ELSE << "p", "r", "e", "f" >>
                  /\ RawLabel(in) \in KnownLabels
                  /\ out.comparison \in KnownLabels
                  /\ out.comparison \in { RawLabel(in), Mirror(RawLabel(in)) }
                  /\ \A j \in 1..Len(csv_rows) :
                        RawLabel(csv_rows[j]) \in { RawLabel(in), Mirror(RawLabel(in)) }
                            => prepped_data.rows[j].comparison = out.comparison
                  /\ RawLabel(in) = DAM_3 \o << "-" >> \o DAM_OFF
                        => out.comparison = DAM_OFF \o << "-" >> \o DAM_3

\* An accepted table with a 'DAM_3-DAM_OFF' row of a six-token noise file
\* and a preference row.
C10_Witness ==
    /\ Organized
    /\ \E i, j \in 1..Len(csv_rows) :
           /\ RawLabel(csv_rows[i]) = DAM_3 \o << "-" >> \o DAM_OFF
           /\ TokenCount(csv_rows[i].audio_file) = 6
           /\ prepped_data.rows[i].type = << "n", "o", "i", "s", "e" >>
           /\ prepped_data.rows[j].type = << "p", "r", "e", "f" >>

(***************************************************************************)
(* Properties of the tables passed in, and of the controller script.       *)
(***************************************************************************)
\* The table import_data makes of the one file read.
Imported == [columns |-> RawColumns, rows |-> read_csv(csv_rows)]

\* C11: organize_data has no side effect on the table passed in: after a
\* call, returned or failed part-way, the caller's table has the columns and
\* values it had before the call.
C11_OrganizeLeavesInputAlone ==
    Called => raw_data = Imported

\* C12: remove_incomplete_datasets does not modify the table passed in: the
\* call leaves the caller's table with the same rows, columns, index and row
\* order, whatever it drops from its result.
C12_RemoveLeavesInputAlone ==
    [][pc = "organized" => (prepped_data' = prepped_data /\ raw_data' = raw_data)]_vars

\* A call on six rows that start with the second subject's: the result has
\* four sorted rows, the table passed in still has its six in their order.
C12_Witness ==
    /\ Cleaned
    /\ Len(clean_data.rows) = 4
    /\ Len(prepped_data.rows) = 6
    /\ prepped_data.rows[1].subject = 2
    /\ prepped_data.rows[2].subject = 1
    /\ "index" \notin DOMAIN prepped_data

\* The file names that match the naming pattern.
ValidNames == { NameValid1, NameValid2, NameAccent, NameUnicode }

SomeNameInvalid == \E i \in 1..Len(files) : files[i].name \notin ValidNames
AllNamesValid == \A i \in 1..Len(files) : files[i].name \in ValidNames

\* The invalid names of the folder, in reading order.
InvalidNames == SelectSeq([i \in 1..Len(files) |-> files[i].name],
                          LAMBDA name : name \notin ValidNames)

\* With an invalid name: None, every invalid name reported, nothing run.
StopsOnInvalidName ==
    (pc # "start" /\ SomeNameInvalid) =>
        /\ pc = "stopped"
        /\ ~ IsTable(raw_data)
        /\ reported = InvalidNames
        /\ ~ IsTable(prepped_data)
        /\ ~ IsTable(clean_data)
        /\ ~ IsTable(dam_clean)

\* C13 as stated: with an invalid file name import_data returns None after
\* reporting every invalid name and the controller calls nothing and writes
\* nothing; with all names valid import_data returns the concatenation of
\* the files and the controller runs organize, remove-incomplete and the
\* write, in that order.
C13_ValidNamesRunToTheWrite ==
    /\ StopsOnInvalidName
    /\ (pc # "start" /\ AllNamesValid) =>
           /\ csv_rows = CsvRows(files)
           /\ pc = "import" =>
                  raw_data = [columns |-> RawColumns, rows |-> ConcatRows(files)]
           /\ pc \in { "import", "organized", "cleaned", "written" }

\* The order of the calls: what a step produced shows the steps before it.
CallsInOrder ==
    /\ pc = "import" =>
           (AllNamesValid
              /\ raw_data = [columns |-> RawColumns, rows |-> ConcatRows(files)])
    /\ pc = "organized" => (IsTable(prepped_data) /\ ~ IsTable(clean_data))
    /\ pc = "cleaned" => (IsTable(clean_data) /\ ~ IsTable(dam_clean))
    /\ IsTable(prepped_data) => (AllNamesValid /\ files # << >>)
    /\ IsTable(clean_data) => IsTable(prepped_data)
    /\ IsTable(dam_clean) => (pc = "written" /\ dam_clean = clean_data)
    /\ pc = "written" => IsTable(dam_clean)

\* C13, amended: with an invalid file name import_data returns None after
\* reporting every invalid name and the controller calls nothing and writes
\* nothing; with at least one file and all names valid import_data returns
\* the concatenation of the files and the controller calls organize_data,
\* then, unless that raised (IndexError, KeyError, or AttributeError or
\* TypeError on an audio_file column read as numbers), then
\* remove_incomplete_datasets, then writes dam_clean.csv, in that order;
\* with no file import_data raises.
C13_ValidNamesRunInOrder ==
    [][/\ StopsOnInvalidName'
       /\ CallsInOrder'
       /\ (pc' # "start" /\ AllNamesValid' /\ files' # << >>) =>
              /\ csv_rows' = CsvRows(files')
              /\ reported' = << >>
              /\ pc' \in { "import", "organized", "cleaned", "written", "failed" }
              /\ pc' = "failed" =>
                     (error' \in { "IndexError", "KeyError",
                                   "AttributeError", "TypeError" }
                        /\ ~ IsTable(prepped_data'))
       /\ (pc' # "start" /\ files' = << >>) =>
              (pc' = "failed" /\ error' = "ValueError")
       /\ pc = "import" => pc' \in { "organized", "failed" }
       /\ pc = "organized" => pc' = "cleaned"
       /\ pc = "cleaned" => pc' = "written"
       /\ pc \in { "stopped", "failed", "written" } => pc' = pc]_vars

\* Two validly named files were concatenated, organised, cleaned and written.
C13_Witness ==
    /\ pc = "written"
    /\ Len(files) = 2
    /\ Len(csv_rows) = 2
    /\ dam_clean = clean_data

(***************************************************************************)
(* The REM DataModel (src/rem/models/datamodel.py).                        *)
(* A REM table is the sequence of its rows, each a record of its columns.  *)
(* A difference score is << x >> for the number x and << >> for a missing  *)
(* value (NaN).  A dictionary of groups is a function from keys to tables. *)
(***************************************************************************)
TargetMatch == << "T", "a", "r", "g", "e", "t", "M", "a", "t", "c", "h" >>
BestFit == << "B", "e", "s", "t", "F", "i", "t" >>
EndStudy == << "E", "n", "d", "S", "t", "u", "d", "y" >>

RIC_RT == << "R", "I", "C", "_", "R", "T" >>
RIC312 == << "R", "I", "C", "3", "1", "2" >>
MRIC == << "M", "R", "I", "C" >>
ITC == << "I", "T", "C" >>
ITE == << "I", "T", "E" >>
CIC == << "C", "I", "C" >>
\* A form factor collapse_form_factors does not name.
BTE == << "B", "T", "E" >>
allRIC == << "a", "l", "l", "R", "I", "C" >>
WirelessCustoms ==
    << "W", "i", "r", "e", "l", "e", "s", "s", "C", "u", "s", "t", "o", "m", "s" >>

\* The form factors collapse_form_factors merges.
RICs == { RIC_RT, RIC312, MRIC }
Customs == { ITC, ITE, CIC }

Num(x) == << x >>

\* A cell str.split(expand=True) has nothing to put in.
None == << "None" >>

\* The columns of vdf, in the order _organize_verifit_data selects them.
VdfColumns == << "subject", "condition", "form_factor", "freq", "left65", "right65" >>

\* table[name]: a column as a sequence of values
Column(rows, name) == [i \in 1..Len(rows) |-> rows[i][name]]

\* df['filename'].str.split('_', expand=True): the tokens of every row
Parts(rows) == [i \in 1..Len(rows) |-> Split(rows[i].filename, "_")]

\* The number of columns of the expanded split: that of the longest row.
Width(parts) ==
    IF parts = << >> THEN 0
    ELSE CHOOSE n \in { Len(parts[i]) : i \in 1..Len(parts) } :
             \A i \in 1..Len(parts) : Len(parts[i]) <= n

Part(p, k) == IF k <= Len(p) THEN p[k] ELSE None

\* _organize_estat_data: subject from the file name, filename/junk/data
\* dropped; set_index and reset_index move the key columns to the front
\* and keep the rows in their order.  Two target columns take two tokens.
_organize_estat_data(edf) ==
    LET parts == Parts(edf)
    IN  IF Width(parts) # 2 THEN [edf |-> edf, error |-> "ValueError"]
        ELSE [edf |-> [i \in 1..Len(edf) |->
                          [subject |-> Part(parts[i], 1),
                           form_factor |-> edf[i].form_factor,
                           freq |-> edf[i].freq,
                           left |-> edf[i].left,
                           right |-> edf[i].right]],
              error |-> "none"]

\* self.vdf[['subject', 'condition']] = ...; self.vdf.loc[:, 'form_factor'] = "":
\* three columns more on the table passed in.
AddVerifitColumns(vdf) ==
    LET parts == Parts(vdf)
    IN  IF Width(parts) # 2 THEN [vdf |-> vdf, error |-> "ValueError"]
        ELSE [vdf |-> [i \in 1..Len(vdf) |->
                          [f \in DOMAIN vdf[i] \cup { "subject", "condition", "form_factor" } |->
                              IF f = "subject" THEN Part(parts[i], 1)
                              ELSE IF f = "condition" THEN Part(parts[i], 2)
                              ELSE IF f = "form_factor" THEN << >>
                              ELSE vdf[i][f]]],
              error |-> "none"]

\* _organize_verifit_data: subject and condition from the file name, an
\* empty form_factor; self.vdf becomes a new table of the six columns of
\* VdfColumns, the table passed in keeps the columns added to it.
_organize_verifit_data(vdf) ==
    LET added == AddVerifitColumns(vdf)
    IN  IF added.error # "none" THEN [vdf |-> vdf, passed |-> vdf, error |-> added.error]
        ELSE [vdf |-> [i \in 1..Len(vdf) |->
                          [f \in { VdfColumns[k] : k \in 1..Len(VdfColumns) } |->
                              added.vdf[i][f]]],
              passed |-> added.vdf,
              error |-> "none"]

\* A dictionary that keeps the first of the sorted groups of a subject.
FormFactorDictFirst(edf) ==
    LET formsOf(s) == { edf[i].form_factor : i \in { j \in 1..Len(edf) : edf[j].subject = s } }
    IN  [s \in { edf[i].subject : i \in 1..Len(edf) } |->
            CHOOSE f \in formsOf(s) : \A g \in formsOf(s) : g = f \/ StrLess(f, g)]

\* temp = dict(zip(temp['subject'], temp['form_factor'])) over the sorted
\* groups of (subject, form_factor): a subject with several form factors
\* keeps the last one, the greatest.
FormFactorDict(edf) ==
    LET formsOf(s) == { edf[i].form_factor : i \in { j \in 1..Len(edf) : edf[j].subject = s } }
    IN  [s \in { edf[i].subject : i \in 1..Len(edf) } |->
            CHOOSE f \in formsOf(s) : \A g \in formsOf(s) : g = f \/ StrLess(g, f)]

\* dict.get with a default: a subject without Target entry keeps its empty
\* form factor and the loop goes on.
OnMissingSubjectSkip(vdf) == [vdf |-> vdf, error |-> "none"]

\* temp[subject] on a subject that is no key: KeyError leaves the loop.
OnMissingSubject(vdf) == [vdf |-> vdf, error |-> "KeyError"]

\* for ii in range(0, self.vdf.shape[0]):
\*     self.vdf.iloc[ii, 2] = temp[self.vdf.iloc[ii, 0]]
RECURSIVE AssignRows(_, _, _)
AssignRows(vdf, temp, ii) ==
    IF ii > Len(vdf) THEN [vdf |-> vdf, error |-> "none"]
    ELSE IF vdf[ii][VdfColumns[1]] \notin DOMAIN temp
         THEN LET r == OnMissingSubject(vdf)
              IN  IF r.error = "none" THEN AssignRows(vdf, temp, ii + 1) ELSE r
         ELSE AssignRows([vdf EXCEPT ![ii][VdfColumns[3]] = temp[vdf[ii][VdfColumns[1]]]],
                         temp, ii + 1)

_assign_form_factors(vdf, edf) == AssignRows(vdf, FormFactorDict(edf), 1)

\* DataModel(verifit_data, estat_data): the object, or the exception that
\* left __init__ (then there is no object).  The dictionaries and the
\* collapsed tables are attributes that later calls set: empty until then.
\* self.edf is the Target table passed in, organised in place; the
\* Measured table passed in keeps what _organize_verifit_data added.
DataModel(verifit, estat) ==
    LET e == _organize_estat_data(estat)
        v == _organize_verifit_data(verifit)
        a == _assign_form_factors(v.vdf, e.edf)
    IN  IF e.error # "none"
        THEN [self |-> NoModel, error |-> e.error, verifit |-> verifit, estat |-> estat]
        ELSE IF v.error # "none"
        THEN [self |-> NoModel, error |-> v.error, verifit |-> v.passed, estat |-> e.edf]
        ELSE IF a.error # "none"
        THEN [self |-> NoModel, error |-> a.error, verifit |-> v.passed, estat |-> e.edf]
        ELSE [self |-> [vdf |-> a.vdf, edf |-> e.edf,
                        verifit_collapsed |-> << >>, estat_collapsed |-> << >>,
                        estat_diffs |-> << >>, estat_keys |-> << >>,
                        endstudy_diffs |-> << >>, endstudy_keys |-> << >>,
                        best_target_diffs |-> << >>, best_target_keys |-> << >>],
              error |-> "none", verifit |-> v.passed, estat |-> e.edf]

\* df["form_factor"] = name, on every row
Relabel(rows, name) == [i \in 1..Len(rows) |-> [rows[i] EXCEPT !.form_factor = name]]

\* The rows whose form factor is one of the given ones, relabelled.
Collapsed(rows, forms, name) ==
    Relabel(SelectSeq(rows, LAMBDA r : r.form_factor \in forms), name)

\* Without .copy() the new label is written through to the rows selected.
SourceWrittenThrough(rows) ==
    [i \in 1..Len(rows) |->
        IF rows[i].form_factor \in RICs THEN [rows[i] EXCEPT !.form_factor = allRIC]
        ELSE IF rows[i].form_factor \in Customs
             THEN [rows[i] EXCEPT !.form_factor = WirelessCustoms]
        ELSE rows[i]]

\* self.edf[...].copy(): the label is set on a copy of the selection, the
\* table selected from keeps its rows.
SourceAfterCopy(rows) == rows

\* collapse_form_factors: the RICs, then the wireless customs; rows of any
\* other form factor are in neither.
collapse_form_factors(self) ==
    [self EXCEPT
        !.edf = SourceAfterCopy(self.edf),
        !.vdf = SourceAfterCopy(self.vdf),
        !.estat_collapsed = Collapsed(self.edf, RICs, allRIC)
                                \o Collapsed(self.edf, Customs, WirelessCustoms),
        !.verifit_collapsed = Collapsed(self.vdf, RICs, allRIC)
                                  \o Collapsed(self.vdf, Customs, WirelessCustoms)]

\* cond + '_' + form: both have to be strings
Concatenable(cond, form) == cond # None /\ form # None

\* cond + '_' + form; None + '_' raises TypeError
GroupKey(cond, form) ==
    IF Concatenable(cond, form) THEN cond \o << "_" >> \o form
    ELSE [error |-> "TypeError"]

\* for cond in ...unique(): for form in ...unique(): the pairs, in loop order
LoopOrder(conds, forms) ==
    [k \in 1..(Len(conds) * Len(forms)) |->
        << conds[((k - 1) \div Len(forms)) + 1], forms[((k - 1) % Len(forms)) + 1] >>]

\* The passes of the loops that end with their group in the dictionary:
\* those before the first pass whose key cannot be built.
Passes(pairs) ==
    LET bad == { k \in 1..Len(pairs) : ~ Concatenable(pairs[k][1], pairs[k][2]) }
    IN  IF bad = { } THEN pairs
        ELSE SubSeq(pairs, 1, (CHOOSE k \in bad : \A j \in bad : k <= j) - 1)

\* target - measured
MinusReversed(x, y) == y - x

\* measured - target, EndStudy - TargetMatch, BestFit - TargetMatch
Minus(x, y) == x - y

\* a - b on two columns with the index 0..n-1 each: the values pair by
\* label, and a label one of the sides lacks gives NaN.
DiffAt(a, b, i) ==
    IF i <= Len(a) /\ i <= Len(b) THEN Num(Minus(a[i], b[i])) ELSE NaN

\* The group is cut to the shorter of the two sides.
GroupLengthShorter(table, other) ==
    IF Len(other) < Len(table) THEN Len(other) ELSE Len(table)

\* table['left_diff'] = ...: the assignment aligns on the index of the
\* table, which keeps its rows whatever the length of the other side.
GroupLength(table, other) == Len(table)

\* table['left_diff'] = left; table['right_diff'] = right
WithDiffs(table, other, left, right) ==
    [i \in 1..GroupLength(table, other) |->
        [f \in DOMAIN table[i] \cup { "left_diff", "right_diff" } |->
            IF f = "left_diff" THEN left[i]
            ELSE IF f = "right_diff" THEN right[i]
            ELSE table[i][f]]]

\* One pass of the loops of _diff_from_estat: v, e and the two assignments.
EstatGroup(verifit, estat, cond, form) ==
    LET v == SelectSeq(verifit, LAMBDA r : r.condition = cond /\ r.form_factor = form)
        subjects == { v[i].subject : i \in 1..Len(v) }
        e == SelectSeq(estat, LAMBDA r : r.form_factor = form /\ r.subject \in subjects)
    IN  WithDiffs(v, e,
                  [i \in 1..Len(v) |-> DiffAt(Column(v, "left65"), Column(e, "left"), i)],
                  [i \in 1..Len(v) |-> DiffAt(Column(v, "right65"), Column(e, "right"), i)])

\* _diff_from_estat: a group for every condition and every form factor of
\* the measured table; a key assigned twice keeps the later group and its
\* first place in the dictionary.  diffs is the dictionary, keys its keys in
\* insertion order; a condition that is None ends the loops with TypeError,
\* the groups made until then stay in the dictionary.
_diff_from_estat(verifit, estat) ==
    LET pairs == LoopOrder(Unique(Column(verifit, "condition")),
                           Unique(Column(verifit, "form_factor")))
        done == Passes(pairs)
        key(k) == GroupKey(done[k][1], done[k][2])
        last(x) == CHOOSE k \in 1..Len(done) :
                       key(k) = x /\ \A j \in (k + 1)..Len(done) : key(j) # x
    IN  [diffs |-> [x \in { key(k) : k \in 1..Len(done) } |->
                       EstatGroup(verifit, estat, done[last(x)][1], done[last(x)][2])],
         keys  |-> Unique([k \in 1..Len(done) |-> key(k)]),
         error |-> IF Len(done) < Len(pairs) THEN "TypeError" ELSE "none"]

\* Without self.estat_diffs = {}: the groups of an earlier run stay unless a
\* group of this run has their key.
analyzeOntoEarlierGroups(self, verifit, estat) ==
    LET new == _diff_from_estat(verifit, estat)
    IN  [self |-> [self EXCEPT
                      !.estat_diffs =
                          [x \in DOMAIN new.diffs \cup DOMAIN self.estat_diffs |->
                              IF x \in DOMAIN new.diffs THEN new.diffs[x]
                              ELSE self.estat_diffs[x]],
                      !.estat_keys = Unique(self.estat_keys \o new.keys)],
         error |-> new.error]

\* analyze: the difference scores; the statistics printed after them are no
\* state.  The exception of _diff_from_estat leaves analyze.
analyze(self, verifit, estat) ==
    LET new == _diff_from_estat(verifit, estat)
    IN  [self |-> [self EXCEPT !.estat_diffs = new.diffs, !.estat_keys = new.keys],
         error |-> new.error]

\* One pass of the inner loop of the two inter-condition computations:
\* first - TargetMatch, assigned to the TargetMatch rows.
ConditionGroup(rows, first, form) ==
    LET minuend == SelectSeq(rows, LAMBDA r : r.condition = first /\ r.form_factor = form)
        target_match == SelectSeq(rows, LAMBDA r : r.condition = TargetMatch
                                                       /\ r.form_factor = form)
    IN  WithDiffs(target_match, minuend,
                  [i \in 1..Len(target_match) |->
                      DiffAt(Column(minuend, "left65"), Column(target_match, "left65"), i)],
                  [i \in 1..Len(target_match) |->
                      DiffAt(Column(minuend, "right65"), Column(target_match, "right65"), i)])

\* Without the test cond == "TargetMatch": a group for every condition.
ConditionGroupsEveryCondition(verifit, rows, first) ==
    LET conds == SelectSeq(Unique(Column(verifit, "condition")), LAMBDA c : c # None)
        forms == Unique(Column(verifit, "form_factor"))
        pairs == LoopOrder(conds, forms)
    IN  [diffs |-> [x \in { GroupKey(pairs[k][1], pairs[k][2]) : k \in 1..Len(pairs) } |->
                       ConditionGroup(rows, first,
                           pairs[CHOOSE k \in 1..Len(pairs) :
                                     GroupKey(pairs[k][1], pairs[k][2]) = x][2])],
         keys  |-> [k \in 1..Len(pairs) |-> GroupKey(pairs[k][1], pairs[k][2])]]

\* The groups of an inter-condition computation: only for the condition
\* TargetMatch, one per form factor of the whole measured table, in the
\* order of the form factors.
ConditionGroups(verifit, rows, first) ==
    LET conds == Unique(Column(verifit, "condition"))
        forms == Unique(Column(verifit, "form_factor"))
    IN  IF \A i \in 1..Len(conds) : conds[i] # TargetMatch
        THEN [diffs |-> << >>, keys |-> << >>]
        ELSE [diffs |-> [x \in { GroupKey(TargetMatch, forms[k]) : k \in 1..Len(forms) } |->
                            ConditionGroup(rows, first,
                                forms[CHOOSE k \in 1..Len(forms) :
                                          GroupKey(TargetMatch, forms[k]) = x])],
              keys  |-> [k \in 1..Len(forms) |-> GroupKey(TargetMatch, forms[k])]]

\* _diff_from_endstudy: all_conds has the rows of the subjects that have
\* EndStudy rows; EndStudy - TargetMatch within it.
_diff_from_endstudy(verifit) ==
    LET subs == { verifit[i].subject :
                     i \in { j \in 1..Len(verifit) : verifit[j].condition = EndStudy } }
        all_conds == SelectSeq(verifit, LAMBDA r : r.subject \in subs)
    IN  ConditionGroups(verifit, all_conds, EndStudy)

\* _diff_between_bestfit_targetmatch: BestFit - TargetMatch on a copy of
\* the whole table.
_diff_between_bestfit_targetmatch(verifit) ==
    ConditionGroups(verifit, verifit, BestFit)

(***************************************************************************)
(* Plots and CSV files.  A file is [dir, name, rows]: a plot has no rows.  *)
(***************************************************************************)
\* pd.pivot(index=['subject', 'side'], columns='freq'): two rows of one
\* subject at one frequency are a duplicate entry.
DuplicateEntries(data) ==
    \E i, j \in 1..Len(data) :
        i # j /\ data[i].subject = data[j].subject /\ data[i].freq = data[j].freq

\* _reshape_for_plots: melt, then pivot.  columns are the frequencies of
\* the rows, ears the rows of the wide table; a duplicate entry raises
\* ValueError.
_reshape_for_plots(data) ==
    IF DuplicateEntries(data)
    THEN [columns |-> { }, ears |-> 0, error |-> "ValueError"]
    ELSE [columns |-> { data[i].freq : i \in 1..Len(data) },
          ears |-> 2 * Cardinality({ data[i].subject : i \in 1..Len(data) }),
          error |-> "none"]

\* One pass of the loop of abs_diff_plots up to savefig: data[freqs] raises
\* KeyError when a frequency is no column of the wide table; plt.boxplot
\* takes a table without columns as one empty data set and raises ValueError
\* for its labels, of which there are none.
AbsDiffPlotError(group, freqs) ==
    LET data == _reshape_for_plots(group)
    IN  IF data.error # "none" THEN data.error
        ELSE IF \E k \in 1..Len(freqs) : freqs[k] \notin data.columns THEN "KeyError"
        ELSE IF freqs = << >> THEN "ValueError"
        ELSE "none"

\* One pass of the loop of a fine tuning plot up to savefig: plt.boxplot
\* takes a table without rows as one empty data set and raises ValueError
\* for its labels, of which there are none.
FineTuningPlotError(group) ==
    LET data == _reshape_for_plots(group)
    IN  IF data.error # "none" THEN data.error
        ELSE IF data.columns = { } THEN "ValueError"
        ELSE "none"

\* The passes of a loop before the first one that raises, and its exception.
FirstError(errors) ==
    LET bad == { k \in 1..Len(errors) : errors[k] # "none" }
        first == CHOOSE k \in bad : \A j \in bad : k <= j
    IN  IF bad = { } THEN [done |-> Len(errors), error |-> "none"]
        ELSE [done |-> first - 1, error |-> errors[first]]

LOW == << 250, 500, 1000, 2000 >>
HIGH == << 3000, 4000, 6000 >>

\* if 500 in freqs: group = 'low' else: group = 'high'
FreqGroup(freqs) ==
    IF \E k \in 1..Len(freqs) : freqs[k] = 500 THEN << "l", "o", "w" >>
    ELSE << "h", "i", "g", "h" >>

Png == << ".", "p", "n", "g" >>
FT_Png == << "_", "F", "T" >> \o Png
Csv == << ".", "c", "s", "v" >>

\* plt.savefig(data_dir + os.sep + name)
Plot(data_dir, name) == [dir |-> data_dir, name |-> name, rows |-> << >>]

\* abs_diff_plots(freqs, criterion, show='n', save='y'): a plot per group of
\* estat_diffs, in the order of the dictionary, until a pass raises.
abs_diff_plots(self, freqs) ==
    LET keys == self.estat_keys
        run == FirstError([k \in 1..Len(keys) |->
                              AbsDiffPlotError(self.estat_diffs[keys[k]], freqs)])
    IN  [saved |-> { Plot("deviation_plots", keys[k] \o << "_" >> \o FreqGroup(freqs) \o Png) :
                         k \in 1..run.done },
         error |-> run.error]

\* endstudy_targetmatch_fine_tuning_plots(endstudy_data, show='n', save='y'):
\* the differences, then a plot per group of endstudy_diffs.
endstudy_targetmatch_fine_tuning_plots(self, endstudy_data) ==
    LET new == _diff_from_endstudy(endstudy_data)
        run == FirstError([k \in 1..Len(new.keys) |->
                              FineTuningPlotError(new.diffs[new.keys[k]])])
    IN  [self |-> [self EXCEPT !.endstudy_diffs = new.diffs, !.endstudy_keys = new.keys],
         saved |-> { Plot("fine_tuning_plots", new.keys[k] \o FT_Png) : k \in 1..run.done },
         error |-> run.error]

\* bestfit_targetmatch_fine_tuning_plots(verifit_data, show='n', save='y'):
\* the differences, then a plot per group of best_target_diffs.
bestfit_targetmatch_fine_tuning_plots(self, verifit) ==
    LET new == _diff_between_bestfit_targetmatch(verifit)
        run == FirstError([k \in 1..Len(new.keys) |->
                              FineTuningPlotError(new.diffs[new.keys[k]])])
    IN  [self |-> [self EXCEPT !.best_target_diffs = new.diffs,
                               !.best_target_keys = new.keys],
         saved |-> { Plot("bestfit_targetmatch_diff_plots", new.keys[k] \o FT_Png) :
                         k \in 1..run.done },
         error |-> run.error]

\* pd.concat(diffs.values(), ignore_index=True), for the rows
RECURSIVE ConcatGroups(_, _)
ConcatGroups(diffs, keys) ==
    IF keys = << >> THEN << >>
    ELSE diffs[Head(keys)] \o ConcatGroups(diffs, Tail(keys))

\* if not title: title = <default>
TitleOr(title, default) ==
    IF title = None \/ title = << >> THEN default ELSE title

\* pd.concat(diffs.values(), ignore_index=True) and to_csv(title+'.csv',
\* index=False): the groups of the dictionary in one table; pd.concat of no
\* table raises ValueError.
ToCsv(diffs, keys, title) ==
    IF keys = << >> THEN [saved |-> { }, error |-> "ValueError"]
    ELSE [saved |-> { [dir |-> ".", name |-> title \o Csv,
                       rows |-> ConcatGroups(diffs, keys)] },
          error |-> "none"]

\* write_estat_diffs(estat_diffs, title=None): the title is 'estat_diffs'
\* when none is given.
write_estat_diffs(estat_diffs, keys, title) ==
    ToCsv(estat_diffs, keys,
          TitleOr(title, << "e", "s", "t", "a", "t", "_", "d", "i", "f", "f", "s" >>))

\* write_endstudy_diffs(endstudy_diffs, title=None): the title is
\* 'endstudy_diffs' when none is given.
write_endstudy_diffs(endstudy_diffs, keys, title) ==
    ToCsv(endstudy_diffs, keys,
          TitleOr(title, << "e", "n", "d", "s", "t", "u", "d", "y", "_", "d", "i", "f", "f", "s" >>))

split_estat_diffs == << "s", "p", "l", "i", "t", "_", "e", "s", "t", "a", "t", "_", "d", "i", "f", "f", "s" >>
split_endstudy_diffs == << "s", "p", "l", "i", "t", "_", "e", "n", "d", "s", "t", "u", "d", "y", "_", "d", "i", "f", "f", "s" >>

\* The files on disk after some more are saved: a file of the same
\* directory and name is overwritten.
Saved(on_disk, saved) ==
    { f \in on_disk : \A g \in saved : f.dir # g.dir \/ f.name # g.name } \cup saved

(***************************************************************************)
(* The REM script (src/rem/archive/rem_OLD.py): the separate form factors  *)
(* first, then a second DataModel for the collapsed ones.                  *)
(***************************************************************************)
FREQS == << 250, 500, 1000, 1500, 2000, 3000, 4000, 6000, 8000 >>

S1 == << "S", "1" >>
S2 == << "S", "2" >>

\* A row of v.measured
VRow(filename, freq, left65, right65) ==
    [filename |-> filename, freq |-> freq, left65 |-> left65, right65 |-> right65]

\* A row of e.estat_targets
ERow(filename, form, freq, left, right) ==
    [filename |-> filename, form_factor |-> form,
     data |-> << >>, freq |-> freq, left |-> left, right |-> right]

\* The rows of v.measured that one Verifit file gives, one per frequency of
\* FREQS: the file name is <subject>_<condition>.
VFile(subject, cond, left65, right65) ==
    [k \in 1..Len(FREQS) |->
        VRow(subject \o << "_" >> \o cond, FREQS[k], left65, right65)]

\* The rows of a file whose name has no condition.
VFileUnnamed(subject, left65, right65) ==
    [k \in 1..Len(FREQS) |-> VRow(subject, FREQS[k], left65, right65)]

\* The rows of e.estat_targets that one target file gives: the file name is
\* <subject>_<something>.
EFile(subject, form, left, right) ==
    [k \in 1..Len(FREQS) |->
        ERow(subject \o << "_" >> \o << "e" >>, form, FREQS[k], left, right)]

\* The rows of a target file that has no target at the last frequency.
EFileBelowLast(subject, form, left, right) ==
    SubSeq(EFile(subject, form, left, right), 1, Len(FREQS) - 1)

\* Two subjects with the same form factor, the second also with a custom;
\* a file without condition in its name.
VerifitFiles ==
    { VFile(S1, TargetMatch, 50, 52),
      VFile(S1, EndStudy, 51, 50),
      VFile(S2, TargetMatch, 48, 49),
      VFile(S2, BestFit, 46, 51),
      VFileUnnamed(S1, 50, 52) }

EstatFiles ==
    { EFile(S1, RIC_RT, 45, 50),
      EFile(S2, RIC_RT, 40, 47),
      EFile(S2, ITC, 42, 44) }

\* A RIC subject and a subject whose form factor is a RIC, a custom or one
\* that collapse_form_factors does not name.
CollapseVerifitFiles ==
    { VFile(S1, TargetMatch, 50, 52),
      VFile(S1, EndStudy, 51, 50),
      VFile(S2, TargetMatch, 48, 49),
      VFile(S2, EndStudy, 46, 51) }

CollapseEstatFiles ==
    { EFile(S1, RIC_RT, 45, 50),
      EFile(S2, RIC312, 40, 47),
      EFile(S2, ITC, 42, 44),
      EFile(S2, BTE, 43, 46) }

\* The three conditions, the second subject without BestFit; the first
\* subject also with a target file that stops below the last frequency.
ConditionVerifitFiles ==
    { VFile(S1, TargetMatch, 50, 52),
      VFile(S1, BestFit, 47, 53),
      VFile(S1, EndStudy, 51, 50),
      VFile(S2, TargetMatch, 48, 49),
      VFile(S2, EndStudy, 46, 51) }

ConditionEstatFiles ==
    { EFile(S1, RIC_RT, 45, 50),
      EFileBelowLast(S1, RIC_RT, 45, 50),
      EFile(S2, RIC_RT, 40, 47),
      EFile(S2, ITC, 42, 44) }

\* The DAM script is not run.
DamIdle ==
    /\ pc = "idle"
    /\ raw_data = NoTable
    /\ prepped_data = NoTable
    /\ clean_data = NoTable
    /\ error = "none"
    /\ csv_rows = << >>
    /\ files = << >>
    /\ reported = << >>
    /\ dam_clean = NoTable

dam == << pc, raw_data, prepped_data, clean_data, error, csv_rows, damio >>

InitREM ==
    /\ DamIdle
    /\ verifit_data = << >>
    /\ estat_data = << >>
    /\ d = NoModel
    /\ passed = NoModel
    /\ rem_files = { }
    /\ rem_pc = "start"
    /\ rem_error = "none"

\* The file names of the rows of a table.
FileNamesOf(rows) == { rows[i].filename : i \in 1..Len(rows) }

\* v.get_data(): the rows of one more file in v.measured; a folder has a
\* file name once.
ReadVerifit(file, max) ==
    /\ rem_pc = "start"
    /\ Cardinality(FileNamesOf(verifit_data)) < max
    /\ FileNamesOf(file) \cap FileNamesOf(verifit_data) = { }
    /\ verifit_data' = verifit_data \o file
    /\ UNCHANGED << estat_data, d, passed, rem_files, rem_pc, rem_error, dam >>

\* e.get_targets(): the rows of one more target file in e.estat_targets; a
\* subject may have a file per form factor.
ReadEstat(file) ==
    /\ rem_pc = "start"
    /\ Len(estat_data) < MaxEstatFiles * Len(FREQS)
    /\ << file[1].filename, file[1].form_factor >>
           \notin { << estat_data[i].filename, estat_data[i].form_factor >> :
                        i \in 1..Len(estat_data) }
    /\ estat_data' = estat_data \o file
    /\ UNCHANGED << verifit_data, d, passed, rem_files, rem_pc, rem_error, dam >>

\* d = datamodel.DataModel(verifit_data=v.measured.copy(),
\*                         estat_data=e.estat_targets.copy())
Construct ==
    /\ rem_pc = "start"
    /\ LET res == DataModel(verifit_data, estat_data)
       IN  /\ d' = res.self
           /\ passed' = [verifit |-> res.verifit, estat |-> res.estat]
           /\ rem_error' = res.error
           /\ rem_pc' = IF res.error = "none" THEN "constructed" ELSE "failed"
    /\ UNCHANGED << verifit_data, estat_data, rem_files, dam >>

\* d.analyze(d.vdf, d.edf, **PARS)
Analyze ==
    /\ rem_pc = "constructed"
    /\ LET res == analyze(d, d.vdf, d.edf)
       IN  /\ d' = res.self
           /\ rem_error' = res.error
           /\ rem_pc' = IF res.error = "none" THEN "analyzed" ELSE "failed"
    /\ UNCHANGED << verifit_data, estat_data, passed, rem_files, dam >>

\* d.abs_diff_plots(freqs=LOW, criterion=PARS['low_ceiling'], show='n', save='y')
AbsDiffPlotsLow ==
    /\ rem_pc = "analyzed"
    /\ LET res == abs_diff_plots(d, LOW)
       IN  /\ rem_files' = Saved(rem_files, res.saved)
           /\ rem_error' = res.error
           /\ rem_pc' = IF res.error = "none" THEN "plotted_low" ELSE "failed"
    /\ UNCHANGED << verifit_data, estat_data, d, passed, dam >>

\* d.abs_diff_plots(freqs=HIGH, criterion=PARS['high_ceiling'], show='n', save='y')
AbsDiffPlotsHigh ==
    /\ rem_pc = "plotted_low"
    /\ LET res == abs_diff_plots(d, HIGH)
       IN  /\ rem_files' = Saved(rem_files, res.saved)
           /\ rem_error' = res.error
           /\ rem_pc' = IF res.error = "none" THEN "plotted_high" ELSE "failed"
    /\ UNCHANGED << verifit_data, estat_data, d, passed, dam >>

\* d.endstudy_targetmatch_fine_tuning_plots(endstudy_data=d.vdf, ...)
EndstudyPlots ==
    /\ rem_pc = "plotted_high"
    /\ LET res == endstudy_targetmatch_fine_tuning_plots(d, d.vdf)
       IN  /\ d' = res.self
           /\ rem_files' = Saved(rem_files, res.saved)
           /\ rem_error' = res.error
           /\ rem_pc' = IF res.error = "none" THEN "endstudy" ELSE "failed"
    /\ UNCHANGED << verifit_data, estat_data, passed, dam >>

\* d.bestfit_targetmatch_fine_tuning_plots(verifit_data=d.vdf, ...)
BestfitPlots ==
    /\ rem_pc = "endstudy"
    /\ LET res == bestfit_targetmatch_fine_tuning_plots(d, d.vdf)
       IN  /\ d' = res.self
           /\ rem_files' = Saved(rem_files, res.saved)
           /\ rem_error' = res.error
           /\ rem_pc' = IF res.error = "none" THEN "bestfit" ELSE "failed"
    /\ UNCHANGED << verifit_data, estat_data, passed, dam >>

\* d.write_estat_diffs(d.estat_diffs, 'split_estat_diffs')
WriteEstatDiffs ==
    /\ rem_pc = "bestfit"
    /\ LET res == write_estat_diffs(d.estat_diffs, d.estat_keys, split_estat_diffs)
       IN  /\ rem_files' = Saved(rem_files, res.saved)
           /\ rem_error' = res.error
           /\ rem_pc' = IF res.error = "none" THEN "written_estat" ELSE "failed"
    /\ UNCHANGED << verifit_data, estat_data, d, passed, dam >>

\* d.write_endstudy_diffs(d.endstudy_diffs, 'split_endstudy_diffs')
WriteEndstudyDiffs ==
    /\ rem_pc = "written_estat"
    /\ LET res == write_endstudy_diffs(d.endstudy_diffs, d.endstudy_keys, split_endstudy_diffs)
       IN  /\ rem_files' = Saved(rem_files, res.saved)
           /\ rem_error' = res.error
           /\ rem_pc' = IF res.error = "none" THEN "written" ELSE "failed"
    /\ UNCHANGED << verifit_data, estat_data, d, passed, dam >>

\* The second d = datamodel.DataModel(...), on fresh copies of the tables.
ConstructAgain ==
    /\ rem_pc = "written"
    /\ LET res == DataModel(verifit_data, estat_data)
       IN  /\ d' = res.self
           /\ passed' = [verifit |-> res.verifit, estat |-> res.estat]
           /\ rem_error' = res.error
           /\ rem_pc' = IF res.error = "none" THEN "constructed2" ELSE "failed"
    /\ UNCHANGED << verifit_data, estat_data, rem_files, dam >>

\* d.collapse_form_factors()
Collapse ==
    /\ rem_pc = "constructed2"
    /\ d' = collapse_form_factors(d)
    /\ rem_pc' = "collapsed"
    /\ UNCHANGED << verifit_data, estat_data, passed, rem_files, rem_error, dam >>

\* d.analyze(verifit_data=d.verifit_collapsed, estat_data=d.estat_collapsed, **PARS)
AnalyzeCollapsed ==
    /\ rem_pc = "collapsed"
    /\ LET res == analyze(d, d.verifit_collapsed, d.estat_collapsed)
       IN  /\ d' = res.self
           /\ rem_error' = res.error
           /\ rem_pc' = IF res.error = "none" THEN "analyzed2" ELSE "failed"
    /\ UNCHANGED << verifit_data, estat_data, passed, rem_files, dam >>

\* The statements of the script after the tables are read, up to the
\* analysis of the collapsed tables.
Script ==
    \/ Construct
    \/ Analyze
    \/ AbsDiffPlotsLow
    \/ AbsDiffPlotsHigh
    \/ EndstudyPlots
    \/ BestfitPlots
    \/ WriteEstatDiffs
    \/ WriteEndstudyDiffs
    \/ ConstructAgain
    \/ Collapse
    \/ AnalyzeCollapsed

ReadVerifitFile == \E file \in VerifitFiles : ReadVerifit(file, MaxVerifitFiles)
ReadEstatFile == \E file \in EstatFiles : ReadEstat(file)

NextREM == ReadVerifitFile \/ ReadEstatFile \/ Script

SpecREM == InitREM /\ [][NextREM]_vars

ReadCollapseVerifitFile ==
    \E file \in CollapseVerifitFiles : ReadVerifit(file, MaxCollapseFiles)
ReadCollapseEstatFile == \E file \in CollapseEstatFiles : ReadEstat(file)

NextCollapse == ReadCollapseVerifitFile \/ ReadCollapseEstatFile \/ Script

SpecCollapse == InitREM /\ [][NextCollapse]_vars

ReadConditionVerifitFile ==
    \E file \in ConditionVerifitFiles : ReadVerifit(file, MaxConditionFiles)
ReadConditionEstatFile == \E file \in ConditionEstatFiles : ReadEstat(file)

NextConditions == ReadConditionVerifitFile \/ ReadConditionEstatFile \/ Script

SpecConditions == InitREM /\ [][NextConditions]_vars

(***************************************************************************)
(* Properties of the REM DataModel.                                        *)
(***************************************************************************)
IsModel(x) == "none" \notin DOMAIN x

\* Subject and condition as the file names of the tables read give them.
SubjectOf(r) == Token(r.filename, 1)
ConditionOf(r) ==
    IF TokenCount(r.filename) < 2 THEN None ELSE Token(r.filename, 2)

\* The Target rows of a subject.
TargetEntries(subject) ==
    { j \in 1..Len(estat_data) : SubjectOf(estat_data[j]) = subject }

\* Some measured record is of a subject the Target table does not have.
SubjectWithoutTarget ==
    \E i \in 1..Len(verifit_data) : TargetEntries(SubjectOf(verifit_data[i])) = { }

\* C14: after construction every Measured record carries a form factor the
\* Target table records for its subject; if a measured subject has no Target
\* entry the construction fails with an error and there is no DataModel,
\* never one in which some records keep an empty form factor.
C14_FormFactorsAssignedOrNoModel ==
    (rem_pc # "start") =>
        /\ SubjectWithoutTarget =>
               (~ IsModel(d) /\ rem_pc = "failed" /\ rem_error # "none")
        /\ IsModel(d) =>
               /\ Len(d.vdf) = Len(verifit_data)
               /\ \A i \in 1..Len(d.vdf) :
                      /\ d.vdf[i].subject = SubjectOf(verifit_data[i])
                      /\ d.vdf[i].form_factor # << >>
                      /\ \E j \in TargetEntries(d.vdf[i].subject) :
                             estat_data[j].form_factor = d.vdf[i].form_factor
        /\ ~ IsModel(d) => rem_pc = "failed"

\* The first measured subject has a Target entry, the second has none: the
\* lookup of the second row raised after the first row was assigned.
C14_Witness ==
    /\ rem_pc = "failed"
    /\ rem_error = "KeyError"
    /\ ~ IsModel(d)
    /\ Cardinality(FileNamesOf(verifit_data)) = 2
    /\ TargetEntries(SubjectOf(verifit_data[1])) # { }
    /\ TargetEntries(SubjectOf(verifit_data[Len(verifit_data)])) = { }

\* The groups of d.estat_diffs come from d.vdf and d.edf.
Analyzed ==
    rem_pc \in { "analyzed", "plotted_low", "plotted_high", "endstudy", "bestfit",
                 "written_estat", "written" }

\* Subject and frequency of the rows, in table order.
SubjectFreqs(rows) ==
    [i \in 1..Len(rows) |-> << SubjectOf(rows[i]), rows[i].freq >>]

MeasuredUnder(cond) ==
    SelectSeq(verifit_data, LAMBDA r : ConditionOf(r) = cond)

\* The Target rows of the subjects measured under a condition.
TargetsUnder(cond) ==
    SelectSeq(estat_data,
              LAMBDA t : \E i \in 1..Len(verifit_data) :
                             /\ ConditionOf(verifit_data[i]) = cond
                             /\ SubjectOf(verifit_data[i]) = SubjectOf(t))

\* The two tables list subjects and frequencies in the same order, and a
\* measured subject has one Target row per frequency, of one form factor.
SameOrderOneTarget ==
    /\ \A i \in 1..Len(verifit_data) :
           SubjectFreqs(MeasuredUnder(ConditionOf(verifit_data[i])))
               = SubjectFreqs(TargetsUnder(ConditionOf(verifit_data[i])))
    /\ \A i \in 1..Len(verifit_data) :
           Cardinality({ j \in TargetEntries(SubjectOf(verifit_data[i])) :
                            estat_data[j].freq = verifit_data[i].freq }) = 1

\* The Target rows with the subject, form factor and frequency of a record.
TargetsOf(r) ==
    { j \in TargetEntries(r.subject) :
          /\ estat_data[j].form_factor = r.form_factor
          /\ estat_data[j].freq = r.freq }

\* C15: when the Measured and the Target table list subjects and
\* frequencies in the same order and each measured subject has exactly one
\* Target row per frequency, every deviation record has left_diff = measured
\* left - target left and right_diff = measured right - target right of the
\* Target row with its subject, form factor and frequency.
C15_DiffIsMeasuredMinusTarget ==
    (Analyzed /\ SameOrderOneTarget) =>
        \A key \in DOMAIN d.estat_diffs :
            \A i \in 1..Len(d.estat_diffs[key]) :
                LET r == d.estat_diffs[key][i]
                IN  /\ Cardinality(TargetsOf(r)) = 1
                    /\ \A j \in TargetsOf(r) :
                           /\ r.left_diff = Num(r.left65 - estat_data[j].left)
                           /\ r.right_diff = Num(r.right65 - estat_data[j].right)

\* Two subjects measured and targeted in the same order; the first is the
\* record 50/52 against the target 45/50, with the deviations 5 and 2.
C15_Witness ==
    /\ Analyzed
    /\ SameOrderOneTarget
    /\ Cardinality(FileNamesOf(verifit_data)) = 2
    /\ Cardinality(FileNamesOf(estat_data)) = 2
    /\ GroupKey(TargetMatch, RIC_RT) \in DOMAIN d.estat_diffs
    /\ Len(d.estat_diffs[GroupKey(TargetMatch, RIC_RT)]) = 2 * Len(FREQS)
    /\ LET r == d.estat_diffs[GroupKey(TargetMatch, RIC_RT)][3]
       IN  /\ r.subject = S1 /\ r.freq = 1000
           /\ r.left65 = 50 /\ r.right65 = 52
           /\ r.left_diff = Num(5) /\ r.right_diff = Num(2)

\* The groups of d.estat_diffs come from the collapsed tables.
AnalyzedCollapsed == rem_pc = "analyzed2"

\* The values of a table, without their order.
Range(rows) == { rows[i] : i \in 1..Len(rows) }

\* The conditions of the measured records.
Conditions == { d.vdf[i].condition : i \in 1..Len(d.vdf) }

\* The rows of the groups of a condition and the given form factors in the
\* computation on the tables as constructed, relabelled.
OriginalRows(cond, forms, name) ==
    LET uncollapsed == _diff_from_estat(d.vdf, d.edf).diffs
    IN  UNION { Range(Relabel(uncollapsed[GroupKey(cond, f)], name)) :
                  f \in { g \in forms : GroupKey(cond, g) \in DOMAIN uncollapsed } }

\* C16: after collapsing RIC_RT, RIC312 and MRIC to allRIC the deviation
\* computation on the collapsed tables gives, for each condition, a group
\* whose rows are the rows of the three original groups, relabelled allRIC,
\* every left_diff and right_diff as in the uncollapsed computation.
C16_CollapsedGroupIsUnionOfOriginals ==
    AnalyzedCollapsed =>
        \A cond \in Conditions :
            (OriginalRows(cond, RICs, allRIC) # { }) =>
                /\ GroupKey(cond, allRIC) \in DOMAIN d.estat_diffs
                /\ Range(d.estat_diffs[GroupKey(cond, allRIC)])
                       = OriginalRows(cond, RICs, allRIC)

\* s[::-1]
Reverse(rows) == [i \in 1..Len(rows) |-> rows[Len(rows) + 1 - i]]

\* C17: the deviation-from-target computation pairs the rows after a
\* deterministic sort, so the diff of a subject, condition and frequency
\* does not depend on the order of the rows of the Measured table or of the
\* Target table: the tables supplied in reverse order give the same records.
C17_DiffIndependentOfRowOrder ==
    Analyzed =>
        /\ d.estat_diffs = _diff_from_estat(d.vdf, Reverse(d.edf)).diffs
        /\ \A key \in DOMAIN d.estat_diffs :
               Range(d.estat_diffs[key])
                   = Range(_diff_from_estat(Reverse(d.vdf), d.edf).diffs[key])

\* C18: the deviation-from-target computation produces one group per
\* (condition, form factor) pair that occurs in the Measured table: the
\* group keys are the pairs of some record, and no others.
C18_GroupsAreThePairsPresent ==
    Analyzed =>
        DOMAIN d.estat_diffs
            = { GroupKey(d.vdf[i].condition, d.vdf[i].form_factor) : i \in 1..Len(d.vdf) }

\* The subject has measured records under the condition.
MeasuredIn(subject, cond) ==
    \E i \in 1..Len(d.vdf) : d.vdf[i].subject = subject /\ d.vdf[i].condition = cond

\* Both inter-condition dictionaries are computed.
Compared == rem_pc \in { "bestfit", "written_estat", "written" }

\* C19: the inter-condition computations (EndStudy vs TargetMatch, BestFit
\* vs TargetMatch) are restricted to the subjects present in both
\* conditions: every row of every group is of a subject that has measured
\* records under both conditions compared.
C19_GroupsOfSubjectsInBothConditions ==
    Compared =>
        /\ \A key \in DOMAIN d.endstudy_diffs :
               \A i \in 1..Len(d.endstudy_diffs[key]) :
                   /\ MeasuredIn(d.endstudy_diffs[key][i].subject, EndStudy)
                   /\ MeasuredIn(d.endstudy_diffs[key][i].subject, TargetMatch)
        /\ \A key \in DOMAIN d.best_target_diffs :
               \A i \in 1..Len(d.best_target_diffs[key]) :
                   /\ MeasuredIn(d.best_target_diffs[key][i].subject, BestFit)
                   /\ MeasuredIn(d.best_target_diffs[key][i].subject, TargetMatch)

\* The form factors of the measured records.
Forms == { d.vdf[i].form_factor : i \in 1..Len(d.vdf) }

\* The two sides of a deviation-from-target group.
MeasuredSide(cond, form) ==
    SelectSeq(d.vdf, LAMBDA r : r.condition = cond /\ r.form_factor = form)

TargetSide(cond, form) ==
    SelectSeq(d.edf, LAMBDA t : /\ t.form_factor = form
                                /\ \E i \in 1..Len(d.vdf) :
                                       /\ d.vdf[i].condition = cond
                                       /\ d.vdf[i].form_factor = form
                                       /\ d.vdf[i].subject = t.subject)

\* The two sides of an EndStudy-vs-TargetMatch group: the rows of the
\* subjects that have EndStudy records.
ConditionSide(cond, form) ==
    SelectSeq(d.vdf, LAMBDA r : /\ r.condition = cond
                                /\ r.form_factor = form
                                /\ MeasuredIn(r.subject, EndStudy))

Shorter(a, b) == IF Len(a) < Len(b) THEN Len(a) ELSE Len(b)

\* C20 as stated: when the two sides selected for a key have different row
\* counts the computation raises no error and the group is cut to the row
\* count of the shorter side, whichever side that is.
C20_GroupCutToShorterSide ==
    Compared =>
        /\ rem_error = "none"
        /\ \A cond \in Conditions, form \in Forms :
               Len(MeasuredSide(cond, form)) # Len(TargetSide(cond, form)) =>
                   Len(d.estat_diffs[GroupKey(cond, form)])
                       = Shorter(MeasuredSide(cond, form), TargetSide(cond, form))
        /\ \A form \in Forms :
               (/\ GroupKey(TargetMatch, form) \in DOMAIN d.endstudy_diffs
                /\ Len(ConditionSide(TargetMatch, form)) # Len(ConditionSide(EndStudy, form))) =>
                   Len(d.endstudy_diffs[GroupKey(TargetMatch, form)])
                       = Shorter(ConditionSide(TargetMatch, form), ConditionSide(EndStudy, form))
        /\ \A form \in Forms :
               (/\ GroupKey(TargetMatch, form) \in DOMAIN d.best_target_diffs
                /\ Len(MeasuredSide(TargetMatch, form)) # Len(MeasuredSide(BestFit, form))) =>
                   Len(d.best_target_diffs[GroupKey(TargetMatch, form)])
                       = Shorter(MeasuredSide(TargetMatch, form), MeasuredSide(BestFit, form))

\* The group has the rows of the side the diffs are assigned to; the rows
\* the other side has no partner for have missing diffs, the others numbers.
KeepsAssignedSide(group, assigned, other) ==
    /\ Len(group) = Len(assigned)
    /\ \A i \in 1..Len(group) :
           /\ \A f \in DOMAIN assigned[i] : group[i][f] = assigned[i][f]
           /\ (i > Len(other)) => (group[i].left_diff = NaN /\ group[i].right_diff = NaN)
           /\ (i <= Len(other)) => (Len(group[i].left_diff) = 1 /\ Len(group[i].right_diff) = 1)

\* C20, amended: when the two sides selected for a key have different row
\* counts the computation raises no error and the group keeps the row count
\* of the side the diffs are assigned to (the measured rows, or the
\* TargetMatch rows): surplus rows of the other side are ignored, surplus
\* rows of the assigned side stay in the group with missing diffs.
C20_GroupKeepsAssignedSide ==
    Compared =>
        /\ rem_error = "none"
        /\ \A cond \in Conditions, form \in Forms :
               KeepsAssignedSide(d.estat_diffs[GroupKey(cond, form)],
                                 MeasuredSide(cond, form), TargetSide(cond, form))
        /\ \A form \in Forms :
               GroupKey(TargetMatch, form) \in DOMAIN d.endstudy_diffs =>
                   KeepsAssignedSide(d.endstudy_diffs[GroupKey(TargetMatch, form)],
                                     ConditionSide(TargetMatch, form),
                                     ConditionSide(EndStudy, form))
        /\ \A form \in Forms :
               GroupKey(TargetMatch, form) \in DOMAIN d.best_target_diffs =>
                   KeepsAssignedSide(d.best_target_diffs[GroupKey(TargetMatch, form)],
                                     MeasuredSide(TargetMatch, form),
                                     MeasuredSide(BestFit, form))

\* The measured rows of the first subject against a target file that stops
\* below the last frequency: the group keeps the measured rows, the last
\* without diffs.  The EndStudy side, of two subjects, is longer than the
\* TargetMatch side, of one: that group keeps the TargetMatch rows.
C20_Witness ==
    /\ Compared
    /\ Len(MeasuredSide(TargetMatch, RIC_RT)) = Len(FREQS)
    /\ Len(TargetSide(TargetMatch, RIC_RT)) = Len(FREQS) - 1
    /\ Len(d.estat_diffs[GroupKey(TargetMatch, RIC_RT)]) = Len(FREQS)
    /\ d.estat_diffs[GroupKey(TargetMatch, RIC_RT)][Len(FREQS)].left_diff = NaN
    /\ d.estat_diffs[GroupKey(TargetMatch, RIC_RT)][1].left_diff = Num(5)
    /\ Len(ConditionSide(EndStudy, RIC_RT)) = 2 * Len(FREQS)
    /\ Len(ConditionSide(TargetMatch, RIC_RT)) = Len(FREQS)
    /\ Len(d.endstudy_diffs[GroupKey(TargetMatch, RIC_RT)]) = Len(FREQS)
    /\ Len(MeasuredSide(BestFit, RIC_RT)) = 0
    /\ d.best_target_diffs[GroupKey(TargetMatch, RIC_RT)][1].right_diff = NaN

\* C21: collapse_form_factors produces new tables and leaves vdf and edf of
\* the DataModel unchanged, so the uncollapsed deviation computation gives
\* the same groups after the collapse as before it.
C21_CollapseLeavesTablesAlone ==
    [][rem_pc = "constructed2" =>
           /\ d'.vdf = d.vdf
           /\ d'.edf = d.edf
           /\ _diff_from_estat(d'.vdf, d'.edf) = _diff_from_estat(d.vdf, d.edf)]_vars

\* A collapse that relabelled a RIC row of each table in the collapsed
\* tables, the tables of the model still carrying the original label.
C21_Witness ==
    /\ rem_pc = "collapsed"
    /\ \E i \in 1..Len(d.vdf) : d.vdf[i].form_factor \in RICs
    /\ \E i \in 1..Len(d.edf) : d.edf[i].form_factor \in RICs
    /\ \E i \in 1..Len(d.verifit_collapsed) : d.verifit_collapsed[i].form_factor = allRIC
    /\ \E i \in 1..Len(d.estat_collapsed) : d.estat_collapsed[i].form_factor = allRIC

\* The collapsed tables are set.
CollapsedDone == rem_pc \in { "collapsed", "analyzed2" }

\* The rows are the same but for the form factor.
SameButFormFactor(a, b) ==
    /\ DOMAIN a = DOMAIN b
    /\ \A f \in DOMAIN a \ { "form_factor" } : a[f] = b[f]

\* Every row of the source has its row in the collapsed table, and the
\* collapsed table has no more rows than the source.
OnlyRelabelled(source, collapsed) ==
    /\ Len(collapsed) = Len(source)
    /\ \A i \in 1..Len(source) :
           \E j \in 1..Len(collapsed) : SameButFormFactor(source[i], collapsed[j])

\* C22: collapse_form_factors only relabels form factors: each collapsed
\* table has the rows of its source table, differing at most in the form
\* factor, and no Measured or Target row is dropped, whatever its form
\* factor.
C22_CollapseOnlyRelabels ==
    CollapsedDone =>
        /\ OnlyRelabelled(d.vdf, d.verifit_collapsed)
        /\ OnlyRelabelled(d.edf, d.estat_collapsed)

\* C23: constructing a DataModel does not modify the Measured and the Target
\* table passed in: after the construction, successful or failed, and after
\* every later operation they have the columns and values they were passed
\* with.
C23_ConstructionLeavesInputsAlone ==
    (rem_pc # "start") => passed = [verifit |-> verifit_data, estat |-> estat_data]

(***************************************************************************)
(* remove_incomplete_datasets against a filter by observed groups.         *)
(***************************************************************************)
\* The reference filter: a row stays when its key has exactly four rows in
\* its type partition.
ReferenceFilter(rows) ==
    SelectSeq(rows, LAMBDA r : GroupSize(rows, CellOf(r), InPrefs(r)) = 4)

\* The two tables have the same rows, each as many times.
SameBag(a, b) ==
    /\ Len(a) = Len(b)
    /\ \A i \in 1..Len(a) : Mult(a, a[i]) = Mult(b, a[i])

\* C24: the result of remove_incomplete_datasets, which visits the whole
\* Cartesian product of the observed key values, is as a multiset of rows
\* the result of the reference filter that keeps exactly the groups of four
\* of each type partition; it does not depend on the order of the input
\* rows.
C24_EqualsReferenceFilter ==
    Cleaned =>
        /\ SameBag(clean_data.rows, ReferenceFilter(prepped_data.rows))
        /\ SameBag(clean_data.rows,
                   remove_incomplete_datasets(
                       [prepped_data EXCEPT !.rows = Reverse(@)]).ret.rows)

\* Six unsorted rows, four of them a complete group, and a combination of
\* the Cartesian product that no row has.
C24_Witness ==
    /\ Cleaned
    /\ Len(prepped_data.rows) = 6
    /\ Len(clean_data.rows) = 4
    /\ AbsentCombination(prepped_data.rows)
    /\ prepped_data.rows # SortIndex(prepped_data.rows)

\* ---------------------------------------------------------------------
\* The two copies of the DAM logic
\* ---------------------------------------------------------------------

\* The table import_data makes of two files: the file read and, after it, a
\* file whose one row has the audio_file 71.
WithNumericFile ==
    [columns |-> RawColumns,
     rows    |-> read_csv(csv_rows)
                   \o read_csv(<< Row(1, CondA, DAM_3, DAM_OFF,
                                      FileTrackOnly, << "A" >>) >>)]

\* C25: the two copies of the DAM logic are equivalent.  For every table
\* the script holds (the imported table, before and after organize_data
\* has worked on it, and the table organize_data returned), organize_data of
\* src/dam/dam.py gives what organize_data of src/dam/models/dam.py gives:
\* the same returned table, the same exception, and the same table left
\* with the caller; and remove_incomplete_datasets of src/dam/dam.py gives
\* what remove_incomplete_datasets of src/dam/models/dam.py gives: the same
\* rows in the same order under the same index and columns, or the same
\* exception.  The two organize_data also agree on the table of the file
\* read followed by a file with a numeric audio_file column.
C25_CopiesAgree ==
    /\ \A data \in { t \in { raw_data, prepped_data } : IsTable(t) } :
           /\ dam_organize_data(data) = organize_data(data)
           /\ dam_remove_incomplete_datasets(data) = remove_incomplete_datasets(data)
    /\ pc = "import" =>
           dam_organize_data(WithNumericFile) = organize_data(WithNumericFile)

\* Both copies have kept some rows and removed others of a table both
\* copies organized, and both refuse to organize that table a second time.
C25_Witness ==
    /\ Cleaned
    /\ clean_data.rows # << >>
    /\ Len(clean_data.rows) < Len(prepped_data.rows)
    /\ \E i \in 1..Len(csv_rows) : prepped_data.rows[i].comparison
                                     # Label(csv_rows[i].button_A, csv_rows[i].button_B)
    /\ dam_organize_data(Imported).ret = prepped_data
    /\ dam_remove_incomplete_datasets(prepped_data).ret.rows = clean_data.rows
    /\ dam_organize_data(prepped_data).error = "ValueError"
    /\ organize_data(prepped_data).error = "ValueError"

\* ---------------------------------------------------------------------
\* The collapsed-analysis controller, rem_controller_collapsed.py
\* ---------------------------------------------------------------------

\* def collapse_form_factors(self): the parameters after self
CollapseParameters == 0

\* d.collapse_form_factors(d.vdf, d.edf, COLLAPSE): the arguments passed
CollapseArguments == 3

\* The call of the controller: more positional arguments than parameters
\* raise TypeError before the body runs; otherwise the body runs and, having
\* no return statement, gives None.
CollapseCall(self) ==
    IF CollapseArguments > CollapseParameters
    THEN [self |-> self, ret |-> None, error |-> "TypeError"]
    ELSE [self |-> collapse_form_factors(self), ret |-> None, error |-> "none"]

\* vdf, edf = <value>: None cannot be unpacked.
Unpack(call) ==
    IF call.error # "none" THEN call.error
    ELSE IF call.ret = None THEN "TypeError"
    ELSE "none"

\* vdf, edf = d.collapse_form_factors(d.vdf, d.edf, COLLAPSE).  The statement
\* raises, so d.analyze(vdf, edf, **PARS) on the next line is never run.
ControllerCollapse ==
    /\ rem_pc = "constructed"
    /\ LET call == CollapseCall(d)
       IN  /\ d' = call.self
           /\ rem_error' = Unpack(call)
           /\ rem_pc' = IF Unpack(call) = "none" THEN "unpacked" ELSE "failed"
    /\ UNCHANGED << verifit_data, estat_data, passed, rem_files, dam >>

\* The controller constructs the DataModel as the archived script does.
NextController ==
    \/ ReadCollapseVerifitFile
    \/ ReadCollapseEstatFile
    \/ Construct
    \/ ControllerCollapse

SpecController == InitREM /\ [][NextController]_vars

\* C26: the statement of the controller after the construction, the call of
\* collapse_form_factors with the two tables and COLLAPSE, completes without
\* an error and hands back a pair of tables to analyze.
C26_ControllerCollapseCompletes ==
    [][rem_pc = "constructed" => (rem_error' = "none" /\ rem_pc' = "unpacked")]_vars

\* ---------------------------------------------------------------------
\* The inter-condition groups
\* ---------------------------------------------------------------------

\* The keys 'TargetMatch_' + form factor, for the form factors of the
\* measured table; none when no record is measured under TargetMatch.
TargetMatchKeys ==
    IF \E i \in 1..Len(d.vdf) : d.vdf[i].condition = TargetMatch
    THEN { GroupKey(TargetMatch, form) : form \in Forms }
    ELSE { }

\* A diff of a TargetMatch row: the level of the row at the same place of
\* the other condition minus its own, missing where there is no such row.
LevelDiff(other, target_match, i, ear) ==
    IF i <= Len(other) THEN Num(other[i][ear] - target_match[i][ear]) ELSE NaN

\* The group has the TargetMatch rows, each with other minus TargetMatch.
OtherMinusTargetMatch(group, other, target_match) ==
    /\ Len(group) = Len(target_match)
    /\ \A i \in 1..Len(group) :
           /\ group[i].condition = TargetMatch
           /\ group[i].left_diff = LevelDiff(other, target_match, i, "left65")
           /\ group[i].right_diff = LevelDiff(other, target_match, i, "right65")

\* C27: the inter-condition computations produce groups only for the
\* TargetMatch condition, one per form factor of the table and keyed
\* 'TargetMatch_' + form factor, with left_diff and right_diff the other
\* condition's level minus the TargetMatch level (EndStudy - TargetMatch,
\* BestFit - TargetMatch); without a TargetMatch record there is no group.
C27_GroupsOnlyForTargetMatch ==
    Compared =>
        /\ DOMAIN d.endstudy_diffs = TargetMatchKeys
        /\ DOMAIN d.best_target_diffs = TargetMatchKeys
        /\ \A form \in Forms :
               GroupKey(TargetMatch, form) \in TargetMatchKeys =>
                   /\ OtherMinusTargetMatch(d.endstudy_diffs[GroupKey(TargetMatch, form)],
                                            ConditionSide(EndStudy, form),
                                            ConditionSide(TargetMatch, form))
                   /\ OtherMinusTargetMatch(d.best_target_diffs[GroupKey(TargetMatch, form)],
                                            MeasuredSide(BestFit, form),
                                            MeasuredSide(TargetMatch, form))

\* Two form factors and the three conditions: two groups in each
\* dictionary, and EndStudy - TargetMatch = 51 - 50 for the first subject.
C27_Witness ==
    /\ Compared
    /\ Forms = { RIC_RT, ITC }
    /\ DOMAIN d.endstudy_diffs = { GroupKey(TargetMatch, RIC_RT), GroupKey(TargetMatch, ITC) }
    /\ Len(d.endstudy_diffs[GroupKey(TargetMatch, RIC_RT)]) = Len(FREQS)
    /\ d.endstudy_diffs[GroupKey(TargetMatch, RIC_RT)][1].subject = S1
    /\ d.endstudy_diffs[GroupKey(TargetMatch, RIC_RT)][1].left_diff = Num(1)
    /\ \E i \in 1..Len(d.vdf) : d.vdf[i].condition = EndStudy

\* ---------------------------------------------------------------------
\* Analyses repeated on one DataModel
\* ---------------------------------------------------------------------

\* d.analyze(d.vdf, d.edf, **PARS) on the DataModel whose collapsed tables
\* were analyzed last.
AnalyzeUncollapsedAgain ==
    /\ rem_pc \in { "analyzed2", "reanalyzed2" }
    /\ LET res == analyze(d, d.vdf, d.edf)
       IN  /\ d' = res.self
           /\ rem_error' = res.error
           /\ rem_pc' = IF res.error = "none" THEN "analyzed_again" ELSE "failed"
    /\ UNCHANGED << verifit_data, estat_data, passed, rem_files, dam >>

\* d.analyze(verifit_data=d.verifit_collapsed, estat_data=d.estat_collapsed,
\* **PARS) on the DataModel whose uncollapsed tables were analyzed last.
AnalyzeCollapsedAgain ==
    /\ rem_pc = "analyzed_again"
    /\ LET res == analyze(d, d.verifit_collapsed, d.estat_collapsed)
       IN  /\ d' = res.self
           /\ rem_error' = res.error
           /\ rem_pc' = IF res.error = "none" THEN "reanalyzed2" ELSE "failed"
    /\ UNCHANGED << verifit_data, estat_data, passed, rem_files, dam >>

NextReanalyze ==
    \/ ReadCollapseVerifitFile
    \/ ReadCollapseEstatFile
    \/ Script
    \/ AnalyzeUncollapsedAgain
    \/ AnalyzeCollapsedAgain

SpecReanalyze == InitREM /\ [][NextReanalyze]_vars

\* The keys a run on the table gives: condition + '_' + form factor, for
\* the conditions and the form factors of the table.
KeysOf(table) ==
    { GroupKey(table[i].condition, table[j].form_factor) :
          i \in 1..Len(table), j \in 1..Len(table) }

\* The groups are those of a run on the table: its keys, and rows of its
\* form factors only.
GroupsOnlyOf(table) ==
    /\ DOMAIN d.estat_diffs = KeysOf(table)
    /\ \A key \in DOMAIN d.estat_diffs :
           \A i \in 1..Len(d.estat_diffs[key]) :
               \E j \in 1..Len(table) :
                   d.estat_diffs[key][i].form_factor = table[j].form_factor

\* C28: every run of the deviation-from-target computation replaces the
\* whole set of deviation groups: after the uncollapsed and the collapsed
\* tables are analyzed on the same DataModel, in either order and any number
\* of times, the groups are those of the tables analyzed last, with no
\* group of an earlier run.
C28_GroupsOfTheLastRunOnly ==
    /\ (rem_pc = "analyzed_again") => GroupsOnlyOf(d.vdf)
    /\ (rem_pc \in { "analyzed2", "reanalyzed2" }) => GroupsOnlyOf(d.verifit_collapsed)

\* The uncollapsed tables analyzed after the collapsed ones, which had given
\* a group 'TargetMatch_allRIC'.
C28_Witness ==
    /\ rem_pc = "analyzed_again"
    /\ GroupKey(TargetMatch, allRIC) \in KeysOf(d.verifit_collapsed)
    /\ GroupKey(TargetMatch, RIC_RT) \in DOMAIN d.estat_diffs
    /\ Len(d.estat_diffs[GroupKey(TargetMatch, RIC_RT)]) > 0

\* ---------------------------------------------------------------------
\* The form factor of a subject with several Target form factors
\* ---------------------------------------------------------------------

\* The form factors the Target table read lists for the subject.
ListedForms(subject) == { estat_data[j].form_factor : j \in TargetEntries(subject) }

\* The form factor is listed for the subject and none listed sorts after it.
LastListed(form, subject) ==
    /\ form \in ListedForms(subject)
    /\ \A g \in ListedForms(subject) : ~ StrLess(form, g)

\* Some subject has more than one form factor in the Target table.
SeveralFormsListed ==
    \E i \in 1..Len(verifit_data) : Cardinality(ListedForms(SubjectOf(verifit_data[i]))) > 1

\* C29: after construction every Measured record's form factor is one the
\* Target table lists for its subject; a subject with more than one listed
\* form factor raises no error, and all its records get the same one, the
\* last in sorted order.
C29_LastSortedFormFactor ==
    /\ IsModel(d) =>
           \A i \in 1..Len(d.vdf) : LastListed(d.vdf[i].form_factor, d.vdf[i].subject)
    /\ (~ IsModel(d) /\ rem_pc = "failed" /\ SeveralFormsListed) =>
           (SubjectWithoutTarget /\ rem_error = "KeyError")

\* The second subject has RIC_RT and then ITC in the Target table: its
\* record gets RIC_RT, which sorts last but is listed first.
C29_Witness ==
    /\ IsModel(d)
    /\ Len(estat_data) = 2 * Len(FREQS)
    /\ estat_data[1].form_factor = RIC_RT
    /\ estat_data[Len(estat_data)].form_factor = ITC
    /\ SubjectOf(estat_data[1]) = S2
    /\ SubjectOf(estat_data[Len(estat_data)]) = S2
    /\ Len(d.vdf) > 0
    /\ \A i \in 1..Len(d.vdf) : d.vdf[i].subject = S2 /\ d.vdf[i].form_factor = RIC_RT

\* ---------------------------------------------------------------------
\* The filter as a relation between its input and its output
\* ---------------------------------------------------------------------

\* No row occurs more often in the output than in the input.
SubMultiset(out, in) ==
    \A i \in 1..Len(out) : Mult(out, out[i]) <= Mult(in, out[i])

\* Every row is in exactly one of mli[mask] and mli[-mask].
InOnePartition(rows) ==
    \A i \in 1..Len(rows) :
        /\ Mult(Select(rows, TRUE), rows[i]) + Mult(Select(rows, FALSE), rows[i])
               = Mult(rows, rows[i])
        /\ Mult(Select(rows, TRUE), rows[i]) = 0 \/ Mult(Select(rows, FALSE), rows[i]) = 0

\* The filter applied to the table returns its rows, all of them.
RemovesNothing(table) ==
    /\ remove_incomplete_datasets(table).error = "none"
    /\ SameBag(remove_incomplete_datasets(table).ret.rows, table.rows)

\* table.reset_index(): the index levels are columns again.
ResetIndex(table) == [columns |-> table.index \o table.columns, rows |-> table.rows]

\* C30 as stated: the output of remove_incomplete_datasets is a sub-multiset
\* of its input, every input row is in exactly one of the two type
\* partitions, and the filter applied to its own output removes no further
\* row.
C30_FilterOfOutputRemovesNothing ==
    Cleaned =>
        /\ SubMultiset(clean_data.rows, prepped_data.rows)
        /\ InOnePartition(prepped_data.rows)
        /\ RemovesNothing(clean_data)

\* C30, amended: the output is a sub-multiset of the input and every input
\* row is in exactly one of the two type partitions; the output has the
\* four key fields as its index, so the filter applied to the output as
\* returned raises KeyError, and applied to the output with its index reset
\* to columns it removes no further row.
C30_FilterOfResetOutputRemovesNothing ==
    Cleaned =>
        /\ SubMultiset(clean_data.rows, prepped_data.rows)
        /\ InOnePartition(prepped_data.rows)
        /\ remove_incomplete_datasets(clean_data).error = "KeyError"
        /\ RemovesNothing(ResetIndex(clean_data))

\* One complete group kept and a row of another group removed.
C30_Witness ==
    /\ Cleaned
    /\ Len(prepped_data.rows) = 5
    /\ Len(clean_data.rows) = 4
    /\ clean_data.index = KeyColumns
    /\ remove_incomplete_datasets(ResetIndex(clean_data)).ret.rows # << >>
====
